---- MODULE Spec2Model ----
(***************************************************************************)
(* Model of the denog WSI bridge (ext/wsi): the hijacked thread running    *)
(* the winit event loop and draining requests (event_loop.rs,              *)
(* request.rs), and the proxy thread issuing requests and awaiting events  *)
(* through WsiEventLoopProxy.                                              *)
(***************************************************************************)
EXTENDS Integers, Sequences, FiniteSets, TLC

(***************************************************************************)
(* Bounds of the model.                                                    *)
(***************************************************************************)
\* total number of requests (markers included) the proxy thread sends
MaxReq == 4
\* number of occurrences the platform produces on its own (not wake-ups)
MaxOsEvents == 2

(***************************************************************************)
(* Program constants.                                                      *)
(***************************************************************************)
\* tokio_mpsc::channel(1): the event forwarding channel
EventCap_Zero == Len(<< >>)
EventCap == 1
\* std_mpsc::sync_channel(1): the request channel
RequestCap_Two == EventCap + 1
RequestCap == 1

\* logical callers on the proxy thread (tasks sharing the one Rc proxy)
Callers == {1, 2}
\* window ids the native library can hand out
WindowIds == {1, 2}
Titles == {"Denog", "X"}
OsDefaultSize == <<800, 600>>
Sizes == {<<800, 600>>, <<640, 480>>}

\* Option<T> is a sequence of length at most one
None == <<>>
Some(x) == <<x>>

(***************************************************************************)
(* Channels: a bounded FIFO buffer.  send blocks while the buffer is full. *)
(***************************************************************************)
ChanCanSend(q, cap) == Len(q) < cap
ChanSend(q, m) == Append(q, m)
ChanCanRecv(q) == Len(q) > 0
ChanFirst(q) == Head(q)
ChanRest_Peek(q) == q
ChanRest(q) == Tail(q)

(***************************************************************************)
(* Requests (request.rs, enum Request).  ch is the request's private reply *)
(* channel (result_tx); seq is the order in which it was sent.             *)
(***************************************************************************)
WindowKinds ==
  {"WindowInnerSize", "WindowSetInnerSize", "WindowTitle", "WindowSetTitle",
   "WindowRedraw", "FocusWindow", "CreateWebGpuSurface"}
ExecKinds == {"CreateWindow", "DestroyWindow"} \cup WindowKinds

NoOptions == [present |-> FALSE, title |-> None, inner_size |-> None]
Options(t, s) == [present |-> TRUE, title |-> t, inner_size |-> s]
OptionsSet ==
  {NoOptions} \cup
  {Options(t, s) : t \in {None} \cup {Some(x) : x \in {"X"}},
                   s \in {None} \cup {Some(x) : x \in {<<640, 480>>}}}

Req(kind, wid, title, size, options, ch) ==
  [kind |-> kind, window_id |-> wid, title |-> title, size |-> size,
   options |-> options, result_tx |-> ch]
NextEventReq == Req("NextEvent", 0, "", None, NoOptions, 0)
NoReq == Req("none", 0, "", None, NoOptions, 0)

\* the requests a caller can build, given the reply channel created for it
ExecRequests(ch) ==
  {Req("CreateWindow", 0, "", None, o, ch) : o \in OptionsSet}
  \cup {Req(k, w, "", None, NoOptions, ch) :
          k \in {"DestroyWindow", "WindowInnerSize", "WindowTitle",
                 "WindowRedraw", "FocusWindow", "CreateWebGpuSurface"},
          w \in WindowIds}
  \cup {Req("WindowSetInnerSize", w, "", Some(s), NoOptions, ch) :
          w \in WindowIds, s \in Sizes}
  \cup {Req("WindowSetTitle", w, t, None, NoOptions, ch) :
          w \in WindowIds, t \in {"X"}}

(***************************************************************************)
(* Results carried by a reply channel.                                     *)
(***************************************************************************)
Res(tag, wid, title, size) ==
  [tag |-> tag, window_id |-> wid, title |-> title, size |-> size]
NoRes == Res("none", 0, "", None)
Unit == Res("unit", 0, "", None)

(***************************************************************************)
(* Events.  A native occurrence is translated by From<Event> for WsiEvent. *)
(***************************************************************************)
RealKinds == {"Event::WindowEvent", "Event::MainEventsCleared"}
NativeKinds == RealKinds \cup {"Event::UserEvent"}
WsiEventFrom_UserAsCleared(native) ==
  CASE native = "Event::WindowEvent" -> "WsiEvent::WindowEvent"
    [] native = "Event::MainEventsCleared" -> "WsiEvent::MainEventsCleared"
    [] native = "Event::UserEvent" -> "WsiEvent::MainEventsCleared"
WsiEventFrom(native) ==
  CASE native = "Event::WindowEvent" -> "WsiEvent::WindowEvent"
    [] native = "Event::MainEventsCleared" -> "WsiEvent::MainEventsCleared"
    [] native = "Event::UserEvent" -> "WsiEvent::UserEvent"


(***************************************************************************)
(* State.                                                                  *)
(***************************************************************************)
VARIABLES
  \* --- hijacked thread (hijack_main_and_spawn_proxy, handle_requests) ---
  hpc,        \* "recv": in handle_requests, at request_rx.recv()
              \* "reply": a request was serviced, at result_tx.send(..)
              \* "parked": inside event_loop.run, waiting for an occurrence
              \* "forward": in the callback, at event_tx.blocking_send(..)
              \* "panicked": an unwrap() failed
  started,    \* event_loop.run has been entered
  hreq,       \* the request being replied to
  hres,       \* the result computed for it
  hev,        \* the native occurrence handed to the callback
  windows,    \* the registry: HashMap<WindowId, Window>
  \* --- channels and the native loop's user-event queue ---
  reqCh,      \* request channel buffer
  evCh,       \* event forwarding channel buffer
  wakeQ,      \* wake signals injected (send_event) and not yet delivered
  \* --- proxy thread (WsiEventLoopProxy) ---
  wpc,        \* "idle": no synchronous proxy code is running
              \* "ne_send": next_event took the receiver, at request_tx.send
              \* "ne_flag": next_event sent the marker, about to set the flag
              \* "ex_send": send_request at request_tx.send
              \* "ex_wake": send_request at the waiting_for_event test
              \* "ex_recv": at result_rx.recv()
              \* "panicked": an unwrap() failed
  cur,        \* the caller running the synchronous code
  wreq,       \* the request built by the running execute-style call
  neState,    \* the next_event call: "none", "running", "awaiting"
  neCaller,   \* the caller of the outstanding next_event
  event_rx,   \* the receiver slot: TRUE when it holds Some(receiver)
  waiting_for_event,
  lastRet,    \* the value the last finished call returned to its caller,
              \* until the next call is entered
  \* --- history ---
  sentN,      \* requests sent on the request channel, markers included
  recvN,      \* requests received by the hijacked thread
  osN,        \* occurrences produced by the platform itself
  fwdN,       \* events forwarded on the event channel
  rcvdN,      \* events received by next_event calls
  execSent,   \* execute-style requests sent
  execReplied,\* replies received by execute-style calls
  neIssued,   \* execSent when the outstanding next_event was called
  wokeSince,  \* a wake signal was fired since the flag was last set
  wakeFired,  \* wake signals fired by send_request
  userFwd,    \* WsiEvent::UserEvent events forwarded
  destroyed,  \* ids whose DestroyWindow was serviced, not assigned since
  prevSet,    \* the last finished execute-style call, when it was a
              \* window_set_title: its caller, window id and title
  lastSetTitle, \* live id -> the title of the last serviced WindowSetTitle
  created,    \* live id -> the inner_size its CreateWindow asked for, and
              \* whether a WindowSetInnerSize on it was serviced since
  \* --- the op layer (lib.rs) ---
  installed,  \* init was given Some(proxy): OpState holds the proxy
  opExit,     \* how an op called without a proxy ended the process
  \* --- op_wsi_next_event (lib.rs), run against a given sequence of
  \*     outcomes of proxy.next_event() ---
  neYields,   \* the outcome of the 1st, 2nd, .. call of proxy.next_event()
  nePc,       \* "idle", "call": about to call, "await": awaiting, "done"
  neCalls,    \* calls of proxy.next_event() made by the op
  neMarkers,  \* NextEvent markers those calls have sent
  neOut,      \* what the op resolved to
  \* --- the end of the proxy thread ---
  workerGone, \* the setup callback f has returned: the proxy, and with it
              \* request_tx and event_rx, is dropped
  \* --- device ids (device_ids.rs, serialize_device_id.rs) ---
  diMap,      \* DeviceIds.map
  diNext,     \* DeviceIds.next
  diRet,      \* per thread: what DeviceIds::get returned for its call
  sdState,    \* the static STATE behind the mutex: None, or Some(State)
  sdLock,     \* the thread holding STATE's mutex, 0 when free
  sdPc,       \* per thread: where it is in serialize_device_id
  sdArg,      \* per thread: the device_id it was called with
  sdU,        \* per thread: its local u
  sdAssigned, \* the <<device_id, integer>> pairs the calls have returned
  sdCalls,    \* calls of serialize_device_id made
  sdWaited,   \* a call arrived while another thread held the mutex
  \* --- surface ops (webgpu/src/surface.rs) ---
  suTable,    \* OpState.resource_table: the resources, by ResourceId
  suLast,     \* the last op call: its arguments, what the instance gave it,
              \* the table it found and its result
  suOps,      \* op calls made
  \* --- building the window builder (window.rs) ---
  cwOptions,  \* the options create_window was called with
  cwPc,       \* "idle", "call": about to build the builder, "built"
  cwBuilder,  \* the builder handed to build(), None before
  \* --- serializing an event (event.rs) ---
  seEvent,    \* the variant of the WsiEvent being serialized
  sePc,       \* "idle", "start", "entries", "ended"
  seDeclared, \* the length given to serialize_map
  seEntries   \* the keys given to serialize_entry so far

hvars == <<hpc, started, hreq, hres, hev, windows>>
cvars == <<reqCh, evCh, wakeQ>>
wvars == <<wpc, cur, wreq, neState, neCaller, event_rx, waiting_for_event,
           lastRet>>
hist2 == <<wakeFired, userFwd, destroyed>>
hist3 == <<prevSet, lastSetTitle, created>>
histvars == <<sentN, recvN, osN, fwdN, rcvdN, execSent, execReplied,
              neIssued, wokeSince, hist2, hist3>>
ovars == <<installed, opExit>>
bridgeVars == <<hvars, cvars, wvars, histvars, ovars>>
nevars == <<neYields, nePc, neCalls, neMarkers, neOut>>
dvars == <<diMap, diNext, diRet, sdState, sdLock, sdPc, sdArg, sdU,
           sdAssigned, sdCalls, sdWaited>>
suvars == <<suTable, suLast, suOps>>
cwvars == <<cwOptions, cwPc, cwBuilder>>
sevars == <<seEvent, sePc, seDeclared, seEntries>>
pvars == <<nevars, workerGone, dvars, suvars, cwvars, sevars>>
\* what the steps of op_wsi_next_event leave alone
neOthers == <<bridgeVars, workerGone, dvars, suvars, cwvars, sevars>>
\* what the steps of the device-id functions leave alone
sdOthers == <<bridgeVars, nevars, workerGone, suvars, cwvars, sevars>>
\* what the surface ops leave alone
suOthers == <<bridgeVars, nevars, workerGone, dvars, cwvars, sevars>>
\* what serializing an event leaves alone
seOthers == <<bridgeVars, nevars, workerGone, dvars, suvars, cwvars>>
vars == <<bridgeVars, pvars>>

Ret(caller, kind, res, ev) ==
  [caller |-> caller, kind |-> kind, res |-> res, ev |-> ev]
NoRet == Ret(0, "none", NoRes, "none")
NoSet == [caller |-> 0, window_id |-> 0, title |-> ""]

\* the ops registered by init, a sample: the three that fetch the proxy with
\* try_borrow_event_loop_proxy and three that use state.borrow
Ops ==
  {"op_wsi_next_event", "op_wsi_set_device_event_filter",
   "op_wsi_create_window", "op_wsi_window_set_content_protected",
   "op_wsi_window_get_title", "op_wsi_window_destroy"}

\* the api_name an op hands to try_borrow_event_loop_proxy; "" for an op
\* that calls state.borrow::<Rc<WsiEventLoopProxy>>() instead
ApiName(op) ==
  CASE op = "op_wsi_next_event" -> "Deno.wsi.nextEvent"
    [] op = "op_wsi_set_device_event_filter" -> "Deno.wsi.setDeviceEventFilter"
    [] op = "op_wsi_create_window" -> "Deno.wsi.createWindow"
    [] OTHER -> ""

\* how an op ends when OpState holds no proxy: try_borrow_event_loop_proxy
\* prints a message with the api_name and calls std::process::exit(70);
\* state.borrow panics on the missing type, with no api_name to print
Exit(op, how, api) == [op |-> op, how |-> how, api |-> api]
NoExit == Exit("none", "none", "")
WithoutProxy(op) ==
  IF ApiName(op) # ""
  THEN Exit(op, "exit(70)", ApiName(op))
  ELSE Exit(op, "panic", "")

\* where the hijacked thread starts once the proxy thread is spawned: in the
\* handle_requests call that precedes event_loop.run
InitialHpc_NoPreDrain == "parked"
InitialHpc == "recv"

\* the op-level and pure-function parts when they are not the ones run
NeIdle ==
  /\ neYields = << >> /\ nePc = "idle" /\ neCalls = 0 /\ neMarkers = 0
  /\ neOut = "none"

BridgeInit ==
  /\ hpc = InitialHpc /\ started = FALSE
  /\ hreq = NoReq /\ hres = NoRes /\ hev = "none"
  /\ windows = << >>
  /\ reqCh = << >> /\ evCh = << >> /\ wakeQ = 0
  /\ wpc = "idle" /\ cur = 0 /\ wreq = NoReq
  /\ neState = "none" /\ neCaller = 0
  /\ event_rx = TRUE /\ waiting_for_event = FALSE
  /\ lastRet = NoRet
  /\ sentN = 0 /\ recvN = 0 /\ osN = 0 /\ fwdN = 0 /\ rcvdN = 0
  /\ execSent = 0 /\ execReplied = 0 /\ neIssued = 0
  /\ wokeSince = FALSE
  /\ wakeFired = 0 /\ userFwd = 0 /\ destroyed = {}
  /\ prevSet = NoSet /\ lastSetTitle = << >> /\ created = << >>
  /\ installed \in BOOLEAN /\ opExit = NoExit

\* the device-id functions as the process starts: DeviceIds::new() and the
\* static's initializer Mutex::new(None), no call made
Threads == {1, 2}
SdInit ==
  /\ diMap = << >>
  /\ diNext = 1
  /\ diRet = [t \in Threads |-> 0]
  /\ sdState = [some |-> FALSE, map |-> << >>, next |-> 0]
  /\ sdLock = 0
  /\ sdPc = [t \in Threads |-> "idle"]
  /\ sdArg = [t \in Threads |-> "none"]
  /\ sdU = [t \in Threads |-> 0]
  /\ sdAssigned = {}
  /\ sdCalls = 0
  /\ sdWaited = FALSE

\* the resource table the surface ops start from: one surface and one
\* device, no op called
SuInit ==
  /\ suTable = <<[kind |-> "WebGpuSurface", id |-> 1],
                 [kind |-> "WebGpuDevice", id |-> 1]>>
  /\ suLast = [op |-> "none"]
  /\ suOps = 0

\* options: None, as WsiCreateWindowOptions with every field None
AbsentOptions ==
  [present |-> FALSE,
   inner_size |-> None, min_inner_size |-> None, max_inner_size |-> None,
   position |-> None, resizable |-> None, enable_buttons |-> None,
   title |-> None, fullscreen |-> None, maximized |-> None,
   visible |-> None, transparent |-> None, decorated |-> None,
   level |-> None, theme |-> None, resize_increments |-> None,
   content_protected |-> None, active |-> None]

\* create_window is not being called
CwIdle ==
  /\ cwOptions = AbsentOptions
  /\ cwPc = "idle"
  /\ cwBuilder = None

\* no event is being serialized
SeIdle ==
  /\ seEvent = "none"
  /\ sePc = "idle"
  /\ seDeclared = 0
  /\ seEntries = << >>

Init ==
  /\ BridgeInit /\ NeIdle /\ workerGone = FALSE /\ SdInit /\ SuInit
  /\ CwIdle /\ SeIdle


(***************************************************************************)
(* Window creation (request.rs CreateWindow arm, window.rs).               *)
(***************************************************************************)
\* WindowBuilder::new().with_title("Denog")
DefaultBuilder == [title |-> "Denog", inner_size |-> None]

\* WsiCreateWindowOptions::into_window_builder: present fields override
into_window_builder(options, builder) ==
  [title |-> IF options.title # None THEN options.title[1]
             ELSE builder.title,
   inner_size |-> IF options.inner_size # None THEN options.inner_size
                  ELSE builder.inner_size]

\* the builder the CreateWindow arm hands to build()
BuilderFor(options) ==
  IF options.present THEN into_window_builder(options, DefaultBuilder)
  ELSE DefaultBuilder

\* the window the native library builds from a builder
BuiltWindow(builder) ==
  [title |-> builder.title,
   inner_size |-> IF builder.inner_size # None THEN builder.inner_size[1]
                  ELSE OsDefaultSize]

(***************************************************************************)
(* Servicing one request against the registry (handle_requests arms).      *)
(***************************************************************************)
\* windows.get(&window_id) is Some
Registered(ws, w) == w \in DOMAIN ws

\* windows.insert(window_id, window)
Insert_Alone(ws, w, win) == [x \in {w} |-> win]
Insert(ws, w, win) ==
  [x \in (DOMAIN ws) \cup {w} |-> IF x = w THEN win ELSE ws[x]]

\* windows.remove(&window_id)
Remove_Keep(ws, w) == ws
Remove(ws, w) == [x \in (DOMAIN ws) \ {w} |-> ws[x]]

\* the window an arm operates on: windows.get(&window_id).unwrap()
TargetWindow_Any(ws, w) == CHOOSE x \in DOMAIN ws : \A y \in DOMAIN ws : x <= y
TargetWindow(ws, w) == w

\* the arm unwraps a lookup that is None
ArmPanics(req, ws) ==
  req.kind \in WindowKinds /\ ~Registered(ws, req.window_id)

\* the value the arm sends on result_tx
ArmResult(req, ws) ==
  LET win == ws[TargetWindow(ws, req.window_id)] IN
  CASE req.kind = "WindowInnerSize" ->
         Res("size", 0, "", Some(win.inner_size))
    [] req.kind = "WindowTitle" -> Res("title", 0, win.title, None)
    [] req.kind = "CreateWebGpuSurface" ->
         Res("surface", req.window_id, "", None)
    [] OTHER -> Unit

\* the registry after the arm ran; the native window is taken to hold the
\* title and the inner size last given to it
ArmWindows_NoSetTitle(req, ws) ==
  CASE req.kind = "DestroyWindow" -> Remove(ws, req.window_id)
    [] req.kind = "WindowSetInnerSize" ->
         [ws EXCEPT ![req.window_id].inner_size = req.size[1]]
    [] OTHER -> ws
ArmWindows(req, ws) ==
  CASE req.kind = "DestroyWindow" -> Remove(ws, req.window_id)
    [] req.kind = "WindowSetInnerSize" ->
         [ws EXCEPT ![req.window_id].inner_size = req.size[1]]
    [] req.kind = "WindowSetTitle" ->
         [ws EXCEPT ![req.window_id].title = req.title]
    [] OTHER -> ws

(***************************************************************************)
(* The hijacked thread.                                                    *)
(***************************************************************************)
\* where the hijacked thread is once handle_requests has returned: the
\* pre-drain is followed by event_loop.run, which never returns, and the
\* callback returns into the native loop
AfterMarker_Return == "returned"
AfterMarker == "parked"

\* handle_requests: request_rx.recv() yields Request::NextEvent => break.
\* Before run this ends the pre-drain and run is entered; inside the
\* callback it is followed by control_flow.set_wait() and the return.
HRecvNextEvent ==
  /\ hpc = "recv"
  /\ ChanCanRecv(reqCh)
  /\ ChanFirst(reqCh).req.kind = "NextEvent"
  /\ reqCh' = ChanRest(reqCh)
  /\ recvN' = recvN + 1
  /\ hpc' = AfterMarker
  /\ started' = TRUE
  /\ UNCHANGED <<hreq, hres, hev, windows, evCh, wakeQ, wvars>>
  /\ UNCHANGED <<sentN, osN, fwdN, rcvdN, execSent, execReplied, neIssued,
                 wokeSince>>
  /\ UNCHANGED <<hist2, hist3>>
  /\ UNCHANGED <<ovars, pvars>>

\* where the CreateWindow arm goes when builder.build(..) is Err(OsError):
\* the Result is mapped and sent as it is, never unwrapped
AfterBuildErr_Unwrap == "panicked"
AfterBuildErr == "reply"

\* handle_requests: the CreateWindow arm up to result_tx.send
HRecvCreateWindow ==
  /\ hpc = "recv"
  /\ ChanCanRecv(reqCh)
  /\ ChanFirst(reqCh).req.kind = "CreateWindow"
  /\ LET req == ChanFirst(reqCh).req
         win == BuiltWindow(BuilderFor(req.options))
     IN /\ hreq' = req
        /\ \/ \* builder.build(window_target) is Err(OsError)
              /\ hres' = Res("Err(OsError)", 0, "", None)
              /\ windows' = windows
              /\ hpc' = AfterBuildErr
           \/ \* Ok(window): the native library assigns the id
              \E w \in WindowIds \ DOMAIN windows :
                /\ hres' = Res("Ok", w, "", None)
                /\ windows' = Insert(windows, w, win)
                /\ hpc' = "reply"
  /\ reqCh' = ChanRest(reqCh)
  /\ recvN' = recvN + 1
  /\ UNCHANGED <<started, hev, evCh, wakeQ, wvars>>
  /\ UNCHANGED <<sentN, osN, fwdN, rcvdN, execSent, execReplied, neIssued,
                 wokeSince>>
  /\ destroyed' = destroyed \ DOMAIN windows'
  /\ UNCHANGED <<wakeFired, userFwd>>
  /\ created' =
       IF hres'.tag = "Ok"
       THEN [x \in DOMAIN created \cup {hres'.window_id} |->
               IF x = hres'.window_id
               THEN [inner_size |-> hreq'.options.inner_size,
                     resized |-> FALSE]
               ELSE created[x]]
       ELSE created
  /\ UNCHANGED <<prevSet, lastSetTitle>>
  /\ UNCHANGED <<ovars, pvars>>

\* handle_requests: every other arm up to result_tx.send
HRecvWindowRequest ==
  /\ hpc = "recv"
  /\ ChanCanRecv(reqCh)
  /\ ChanFirst(reqCh).req.kind \in ExecKinds \ {"CreateWindow"}
  /\ LET req == ChanFirst(reqCh).req IN
       /\ hreq' = req
       /\ IF ArmPanics(req, windows)
          THEN /\ hpc' = "panicked"
               /\ hres' = NoRes
               /\ windows' = windows
          ELSE /\ hpc' = "reply"
               /\ hres' = ArmResult(req, windows)
               /\ windows' = ArmWindows(req, windows)
  /\ reqCh' = ChanRest(reqCh)
  /\ recvN' = recvN + 1
  /\ UNCHANGED <<started, hev, evCh, wakeQ, wvars>>
  /\ UNCHANGED <<sentN, osN, fwdN, rcvdN, execSent, execReplied, neIssued,
                 wokeSince>>
  /\ destroyed' = IF hpc' = "reply" /\ hreq'.kind = "DestroyWindow"
                  THEN destroyed \cup {hreq'.window_id} ELSE destroyed
  /\ UNCHANGED <<wakeFired, userFwd>>
  /\ created' =
       CASE hpc' = "reply" /\ hreq'.kind = "DestroyWindow" ->
              [x \in DOMAIN created \ {hreq'.window_id} |-> created[x]]
         [] hpc' = "reply" /\ hreq'.kind = "WindowSetInnerSize" ->
              [created EXCEPT ![hreq'.window_id].resized = TRUE]
         [] OTHER -> created
  /\ lastSetTitle' =
       CASE hpc' = "reply" /\ hreq'.kind = "DestroyWindow" ->
              [x \in DOMAIN lastSetTitle \ {hreq'.window_id} |->
                 lastSetTitle[x]]
         [] hpc' = "reply" /\ hreq'.kind = "WindowSetTitle" ->
              [x \in DOMAIN lastSetTitle \cup {hreq'.window_id} |->
                 IF x = hreq'.window_id THEN hreq'.title
                 ELSE lastSetTitle[x]]
         [] OTHER -> lastSetTitle
  /\ UNCHANGED prevSet
  /\ UNCHANGED <<ovars, pvars>>

\* where the drain loop goes after an arm other than NextEvent: the loop
\* body ends and request_rx.recv() is called again
LoopAfterReply_Break == "parked"
LoopAfterReply == "recv"

\* result_tx.send(result) on the capacity-zero reply channel meets the
\* caller's result_rx.recv(): the value is handed over and both go on
HReply ==
  /\ hpc = "reply"
  /\ wpc = "ex_recv"
  /\ hreq.result_tx = wreq.result_tx
  /\ lastRet' = Ret(cur, "reply", hres, "none")
  /\ execReplied' = execReplied + 1
  /\ hpc' = LoopAfterReply
  /\ hreq' = NoReq
  /\ hres' = NoRes
  /\ wpc' = "idle"
  /\ wreq' = NoReq
  /\ cur' = 0
  /\ UNCHANGED <<started, hev, windows, cvars>>
  /\ UNCHANGED <<neState, neCaller, event_rx, waiting_for_event>>
  /\ UNCHANGED <<sentN, recvN, osN, fwdN, rcvdN, execSent, neIssued,
                 wokeSince>>
  /\ prevSet' = IF hreq.kind = "WindowSetTitle"
                THEN [caller |-> cur, window_id |-> hreq.window_id,
                      title |-> hreq.title]
                ELSE NoSet
  /\ UNCHANGED <<hist2, lastSetTitle, created>>
  /\ UNCHANGED <<ovars, pvars>>

\* the first statement of the callback: event_tx.blocking_send(..), ahead
\* of handle_requests
CallbackFirst_Drain == "recv"
CallbackFirst == "forward"

\* the native loop wakes up and calls the callback with an occurrence:
\* an injected wake signal (Event::UserEvent) or one of the platform's own
NativeDeliverWake ==
  /\ hpc = "parked"
  /\ wakeQ > 0
  /\ wakeQ' = wakeQ - 1
  /\ hev' = "Event::UserEvent"
  /\ hpc' = CallbackFirst
  /\ UNCHANGED <<started, hreq, hres, windows, reqCh, evCh, wvars, histvars>>
  /\ UNCHANGED <<ovars, pvars>>

NativeDeliverReal ==
  /\ hpc = "parked"
  /\ osN < MaxOsEvents
  /\ osN' = osN + 1
  /\ \E k \in RealKinds : hev' = k
  /\ hpc' = CallbackFirst
  /\ UNCHANGED <<started, hreq, hres, windows, cvars, wvars>>
  /\ UNCHANGED <<sentN, recvN, fwdN, rcvdN, execSent, execReplied, neIssued,
                 wokeSince>>
  /\ UNCHANGED <<hist2, hist3>>
  /\ UNCHANGED <<ovars, pvars>>

\* the statement of the callback after the forward: handle_requests, so
\* the callback returns to the native loop only on a NextEvent marker
AfterForward_Return == "parked"
AfterForward == "recv"

\* the callback: event_tx.blocking_send(event.into()).unwrap(), and then
\* handle_requests is entered
HForward ==
  /\ hpc = "forward"
  /\ ChanCanSend(evCh, EventCap)
  /\ evCh' = ChanSend(evCh, [kind |-> WsiEventFrom(hev), n |-> fwdN + 1])
  /\ fwdN' = fwdN + 1
  /\ hev' = "none"
  /\ hpc' = AfterForward
  /\ UNCHANGED <<started, hreq, hres, windows, reqCh, wakeQ, wvars>>
  /\ UNCHANGED <<sentN, recvN, osN, rcvdN, execSent, execReplied, neIssued,
                 wokeSince>>
  /\ userFwd' = IF WsiEventFrom(hev) = "WsiEvent::UserEvent"
                THEN userFwd + 1 ELSE userFwd
  /\ UNCHANGED <<wakeFired, destroyed>>
  /\ UNCHANGED hist3
  /\ UNCHANGED <<ovars, pvars>>


(***************************************************************************)
(* The proxy thread: WsiEventLoopProxy.                                    *)
(***************************************************************************)
\* where an execute-style method goes once send_request has returned:
\* result_rx.recv().unwrap()
AfterSendRequest_NoRecv == "idle"
AfterSendRequest == "ex_recv"

\* a caller enters an execute-style method (create_window, destroy_window,
\* window_*): sync_channel(0) makes its reply channel, the request is built
ExecuteCall ==
  /\ installed
  /\ wpc = "idle"
  /\ sentN < MaxReq
  /\ \E c \in Callers, r \in ExecRequests(execSent + 1) :
       /\ cur' = c
       /\ wreq' = r
  /\ wpc' = "ex_send"
  /\ lastRet' = NoRet
  /\ UNCHANGED <<hvars, cvars, histvars>>
  /\ UNCHANGED <<neState, neCaller, event_rx, waiting_for_event>>
  /\ UNCHANGED <<ovars, pvars>>

\* what a proxy method does to the registry: WsiEventLoopProxy holds the
\* two channel ends, the wake handle and the flag, and no registry; the
\* request is handed over and the registry is left as it is
ProxyRegistry_Direct(ws, req) == ArmWindows(req, ws)
ProxyRegistry(ws, req) == ws

\* send_request: self.request_tx.send(request).unwrap()
ExSend ==
  /\ wpc = "ex_send"
  /\ hpc # "panicked"
  /\ ChanCanSend(reqCh, RequestCap)
  /\ reqCh' = ChanSend(reqCh, [seq |-> sentN + 1, req |-> wreq])
  /\ sentN' = sentN + 1
  /\ execSent' = execSent + 1
  /\ wpc' = "ex_wake"
  /\ windows' = ProxyRegistry(windows, wreq)
  /\ UNCHANGED <<hpc, started, hreq, hres, hev, evCh, wakeQ>>
  /\ UNCHANGED <<cur, wreq, neState, neCaller, event_rx, waiting_for_event,
                 lastRet>>
  /\ UNCHANGED <<recvN, osN, fwdN, rcvdN, execReplied, neIssued, wokeSince>>
  /\ UNCHANGED <<hist2, hist3>>
  /\ UNCHANGED <<ovars, pvars>>

\* send_request: if self.waiting_for_event.get() { send_event(()); set(false) }
WakeNeeded_Always(flag) == TRUE
WakeNeeded_Never(flag) == FALSE
WakeNeeded(flag) == flag

\* send_request: self.waiting_for_event.set(false) after send_event(())
FlagAfterWake_Keep(flag) == flag
FlagAfterWake(flag) == FALSE

ExWake ==
  /\ wpc = "ex_wake"
  /\ IF WakeNeeded(waiting_for_event)
     THEN /\ wakeQ' = wakeQ + 1
          /\ waiting_for_event' = FlagAfterWake(waiting_for_event)
          /\ wokeSince' = TRUE
     ELSE /\ UNCHANGED <<wakeQ, waiting_for_event, wokeSince>>
  /\ IF AfterSendRequest = "ex_recv"
     THEN /\ wpc' = "ex_recv"
          /\ UNCHANGED <<cur, wreq>>
     ELSE /\ wpc' = AfterSendRequest
          /\ cur' = 0
          /\ wreq' = NoReq
  /\ UNCHANGED <<hvars, reqCh, evCh>>
  /\ UNCHANGED <<neState, neCaller, event_rx, lastRet>>
  /\ UNCHANGED <<sentN, recvN, osN, fwdN, rcvdN, execSent, execReplied,
                 neIssued>>
  /\ wakeFired' = wakeFired + (wakeQ' - wakeQ)
  /\ UNCHANGED <<userFwd, destroyed>>
  /\ UNCHANGED hist3
  /\ UNCHANGED <<ovars, pvars>>

\* next_event: self.event_rx.take() is None
ReceiverInUse_Never(slot) == FALSE
ReceiverInUse(slot) == ~slot

\* next_event: waiting_for_event.set(false) once the event was received
FlagAfterEvent_Stale(flag) == flag
FlagAfterEvent(flag) == FALSE

\* next_event: self.event_rx.take() is Some(receiver)
NextEventTake ==
  /\ installed
  /\ wpc = "idle"
  /\ sentN < MaxReq
  /\ ~ReceiverInUse(event_rx)
  /\ event_rx' = FALSE
  /\ \E c \in Callers : cur' = c /\ neCaller' = c
  /\ neState' = "running"
  /\ neIssued' = execSent
  /\ wpc' = "ne_send"
  /\ lastRet' = NoRet
  /\ UNCHANGED <<hvars, cvars>>
  /\ UNCHANGED <<wreq, waiting_for_event>>
  /\ UNCHANGED <<sentN, recvN, osN, fwdN, rcvdN, execSent, execReplied,
                 wokeSince>>
  /\ UNCHANGED <<hist2, hist3>>
  /\ UNCHANGED <<ovars, pvars>>

\* the flag after the early return of next_event: the return comes before
\* waiting_for_event.set(true)
FlagOnBusy_Set(flag) == TRUE
FlagOnBusy(flag) == flag

\* next_event: self.event_rx.take() is None:
\* return Err("Receiver already in use")
NextEventBusy ==
  /\ installed
  /\ wpc = "idle"
  /\ ReceiverInUse(event_rx)
  /\ \E c \in Callers : lastRet' = Ret(c, "Err(Receiver already in use)",
                                       NoRes, "none")
  /\ waiting_for_event' = FlagOnBusy(waiting_for_event)
  /\ UNCHANGED <<hvars, cvars, histvars>>
  /\ UNCHANGED <<wpc, cur, wreq, neState, neCaller, event_rx>>
  /\ UNCHANGED <<ovars, pvars>>

\* next_event: self.request_tx.send(Request::NextEvent).unwrap()
NeSend ==
  /\ wpc = "ne_send"
  /\ hpc # "panicked"
  /\ ChanCanSend(reqCh, RequestCap)
  /\ reqCh' = ChanSend(reqCh, [seq |-> sentN + 1, req |-> NextEventReq])
  /\ sentN' = sentN + 1
  /\ wpc' = "ne_flag"
  /\ UNCHANGED <<hvars, evCh, wakeQ>>
  /\ UNCHANGED <<cur, wreq, neState, neCaller, event_rx, waiting_for_event,
                 lastRet>>
  /\ UNCHANGED <<recvN, osN, fwdN, rcvdN, execSent, execReplied, neIssued,
                 wokeSince>>
  /\ UNCHANGED <<hist2, hist3>>
  /\ UNCHANGED <<ovars, pvars>>

\* next_event: self.event_rx.set(Some(event_rx)) leaves the slot occupied
SlotAfterEvent_Empty == FALSE
SlotAfterEvent == TRUE

\* next_event, once event_rx.recv() has produced the event:
\* waiting_for_event.set(false); event_rx.set(Some(event_rx)); Ok(event)
NeReturn ==
  /\ ChanCanRecv(evCh)
  /\ lastRet' = Ret(neCaller, "event", NoRes, ChanFirst(evCh).kind)
  /\ evCh' = ChanRest(evCh)
  /\ rcvdN' = rcvdN + 1
  /\ waiting_for_event' = FlagAfterEvent(waiting_for_event)
  /\ wokeSince' = FALSE
  /\ event_rx' = SlotAfterEvent
  /\ neState' = "none"
  /\ neCaller' = 0
  /\ neIssued' = 0
  /\ wpc' = "idle"
  /\ cur' = 0

\* next_event: self.waiting_for_event.set(true) ahead of the await
FlagOnAwait_Unset == FALSE
FlagOnAwait == TRUE

\* next_event: waiting_for_event.set(true), then the first poll of
\* event_rx.recv().await: it completes at once when an event is buffered
\* and suspends the call otherwise, freeing the proxy thread
NeAwait ==
  /\ wpc = "ne_flag"
  /\ IF ChanCanRecv(evCh)
     THEN NeReturn
     ELSE /\ waiting_for_event' = FlagOnAwait
          /\ wokeSince' = FALSE
          /\ neState' = "awaiting"
          /\ wpc' = "idle"
          /\ cur' = 0
          /\ UNCHANGED <<evCh, rcvdN, event_rx, neCaller, neIssued, lastRet>>
  /\ UNCHANGED <<hvars, reqCh, wakeQ, wreq>>
  /\ UNCHANGED <<sentN, recvN, osN, fwdN, execSent, execReplied>>
  /\ UNCHANGED <<hist2, hist3>>
  /\ UNCHANGED <<ovars, pvars>>

\* next_event: the suspended call is polled again once an event is buffered
NeResume ==
  /\ wpc = "idle"
  /\ neState = "awaiting"
  /\ NeReturn
  /\ UNCHANGED <<hvars, reqCh, wakeQ, wreq>>
  /\ UNCHANGED <<sentN, recvN, osN, fwdN, execSent, execReplied>>
  /\ UNCHANGED <<hist2, hist3>>
  /\ UNCHANGED <<ovars, pvars>>

\* a blocking call of the proxy thread finds its channel disconnected
\* because the hijacked thread is gone: the unwrap() panics
OnDisconnect_Retry == "ex_send"
OnDisconnect == "panicked"

WorkerDisconnected ==
  /\ hpc = "panicked"
  /\ wpc \in {"ex_send", "ex_recv", "ne_send"}
  /\ wpc' = OnDisconnect
  /\ UNCHANGED <<hvars, cvars, histvars>>
  /\ UNCHANGED <<cur, wreq, neState, neCaller, event_rx, waiting_for_event,
                 lastRet>>
  /\ UNCHANGED <<ovars, pvars>>

(***************************************************************************)
(* The op layer without a proxy (lib.rs).                                  *)
(***************************************************************************)
\* an op is called in a runtime whose init was given None: fetching the
\* proxy from OpState ends the process before any proxy method is reached
OpWithoutProxy ==
  /\ ~installed
  /\ opExit = NoExit
  /\ \E op \in Ops : opExit' = WithoutProxy(op)
  /\ UNCHANGED <<installed, hvars, cvars, wvars, histvars, pvars>>

(***************************************************************************)
(* Specification.                                                          *)
(***************************************************************************)
Next ==
  \/ HRecvNextEvent
  \/ HRecvCreateWindow
  \/ HRecvWindowRequest
  \/ HReply
  \/ NativeDeliverWake
  \/ NativeDeliverReal
  \/ HForward
  \/ ExecuteCall
  \/ ExSend
  \/ ExWake
  \/ NextEventTake
  \/ NextEventBusy
  \/ NeSend
  \/ NeAwait
  \/ NeResume
  \/ WorkerDisconnected
  \/ OpWithoutProxy

Spec == Init /\ [][Next]_vars

TypeOK ==
  /\ hpc \in {"recv", "reply", "parked", "forward", "panicked"}
  /\ wpc \in {"idle", "ne_send", "ne_flag", "ex_send", "ex_wake", "ex_recv",
              "panicked"}
  /\ neState \in {"none", "running", "awaiting"}
  /\ DOMAIN windows \subseteq WindowIds
  /\ \A w \in DOMAIN windows :
       windows[w].title \in Titles /\ windows[w].inner_size \in Sizes
  /\ wakeQ \in 0..MaxReq
  /\ sentN \in 0..MaxReq


(***************************************************************************)
(* Fairness: both threads keep running their straight-line code, and the   *)
(* native loop delivers every injected wake signal.  Entering a new call   *)
(* and the platform's own occurrences are not forced.                      *)
(***************************************************************************)
Fairness ==
  /\ WF_vars(HRecvNextEvent)
  /\ WF_vars(HRecvCreateWindow)
  /\ WF_vars(HRecvWindowRequest)
  /\ WF_vars(HReply)
  /\ WF_vars(HForward)
  /\ WF_vars(NativeDeliverWake)
  /\ WF_vars(ExSend)
  /\ WF_vars(ExWake)
  /\ WF_vars(NeSend)
  /\ WF_vars(NeAwait)
  /\ WF_vars(WorkerDisconnected)

SpecLive == Init /\ [][Next]_vars /\ Fairness

\* the runtime of the proxy thread also polls a suspended next_event again
\* once its event is buffered and the thread is free
FairResume == Fairness /\ WF_vars(NeResume)

SpecResume == Init /\ [][Next]_vars /\ FairResume

(***************************************************************************)
(* The proxy thread ends: thread::spawn's closure returns once f has       *)
(* returned, and the Rc it made and its _retain clone are dropped.         *)
(***************************************************************************)
\* f returns when no proxy method is running on the thread; a suspended
\* next_event call is dropped with it
WorkerReturns ==
  /\ installed
  /\ ~workerGone
  /\ wpc = "idle"
  /\ workerGone' = TRUE
  /\ UNCHANGED <<bridgeVars, nevars, dvars, suvars, cwvars, sevars>>

\* what the unwrap() of a failed channel operation does to the hijacked
\* thread
OnWorkerGone_Park == "parked"
OnWorkerGone == "panicked"

\* handle_requests: request_rx.recv() is Err once the buffer is empty and
\* the sender is dropped; .unwrap() panics
HRecvDisconnected ==
  /\ workerGone
  /\ hpc = "recv"
  /\ ~ChanCanRecv(reqCh)
  /\ hpc' = OnWorkerGone
  /\ UNCHANGED <<started, hreq, hres, hev, windows, cvars, wvars, histvars,
                 ovars, pvars>>

\* the callback: event_tx.blocking_send(..) is Err once the receiver is
\* dropped, whatever room the buffer has; .unwrap() panics
HForwardDisconnected ==
  /\ workerGone
  /\ hpc = "forward"
  /\ hpc' = OnWorkerGone
  /\ UNCHANGED <<started, hreq, hres, hev, windows, cvars, wvars, histvars,
                 ovars, pvars>>

\* with the proxy thread gone the hijacked thread can still take a marker
\* left in the buffer and be handed occurrences by the native loop
NextGone ==
  \/ ~workerGone /\ Next
  \/ WorkerReturns
  \/ workerGone /\ HRecvNextEvent
  \/ workerGone /\ NativeDeliverWake
  \/ workerGone /\ NativeDeliverReal
  \/ HRecvDisconnected
  \/ HForwardDisconnected

SpecWorkerGone == Init /\ [][NextGone]_vars

(***************************************************************************)
(* Device ids: DeviceIds::get (device_ids.rs) and serialize_device_id      *)
(* (serialize_device_id.rs), the latter called from two threads.           *)
(***************************************************************************)
MaxDeviceCalls == 4
DeviceIdSet == {"dev_a", "dev_b", "dev_c"}

\* HashMap::insert
MapInsert(map, k, v) == [x \in DOMAIN map \cup {k} |-> IF x = k THEN v ELSE map[x]]

\* DeviceIds::get: self.next += 1.  next is a u32 that starts at 1 and
\* grows by one per new device id, so the addition stays below 2^32 for any
\* number of device ids a run here hands out.
NextAfterAssign_Same(next) == next
NextAfterAssign(next) == next + 1

\* DeviceIds::get on self = [map, next]: the new self and the returned u
DeviceIds_get(self, device_id) ==
  IF device_id \in DOMAIN self.map
  THEN [map |-> self.map, next |-> self.next, u |-> self.map[device_id]]
  ELSE [map |-> MapInsert(self.map, device_id, self.next),
        next |-> NextAfterAssign(self.next),
        u |-> self.next]

\* STATE.lock(): the mutex is acquired only while no thread holds it
LockFree_Always(holder) == TRUE
LockFree(holder) == holder = 0

\* a thread calls serialize_device_id(device_id)
SdCall(t, device_id) ==
  /\ sdPc[t] = "idle"
  /\ sdCalls < MaxDeviceCalls
  /\ sdCalls' = sdCalls + 1
  /\ sdArg' = [sdArg EXCEPT ![t] = device_id]
  /\ sdPc' = [sdPc EXCEPT ![t] = "lock"]
  /\ sdWaited' = (sdWaited \/ sdLock # 0)
  /\ UNCHANGED <<diMap, diNext, diRet, sdState, sdLock, sdU, sdAssigned,
                 sdOthers>>

\* let mut state = STATE.lock().unwrap().  The calls take effect in the
\* order they get the mutex: DeviceIds::get is given the same device_id at
\* this point, so that both are run on the same call sequence.
SdLock(t) ==
  /\ sdPc[t] = "lock"
  /\ LockFree(sdLock)
  /\ sdLock' = t
  /\ sdPc' = [sdPc EXCEPT ![t] = "init"]
  /\ LET r == DeviceIds_get([map |-> diMap, next |-> diNext], sdArg[t])
     IN /\ diMap' = r.map
        /\ diNext' = r.next
        /\ diRet' = [diRet EXCEPT ![t] = r.u]
  /\ UNCHANGED <<sdState, sdArg, sdU, sdAssigned, sdCalls, sdWaited,
                 sdOthers>>

\* match &mut *state { None => *state = Some(State { .., next: 1 }), .. }
SdMatchState(t) ==
  /\ sdPc[t] = "init"
  /\ sdState' = IF sdState.some THEN sdState
                ELSE [some |-> TRUE, map |-> << >>, next |-> 1]
  /\ sdPc' = [sdPc EXCEPT ![t] = "lookup"]
  /\ UNCHANGED <<diMap, diNext, diRet, sdLock, sdArg, sdU, sdAssigned,
                 sdCalls, sdWaited, sdOthers>>

\* match state.map.get(&device_id) { Some(&u) => u, None => .. }
SdLookup(t) ==
  /\ sdPc[t] = "lookup"
  /\ IF sdArg[t] \in DOMAIN sdState.map
     THEN /\ sdU' = [sdU EXCEPT ![t] = sdState.map[sdArg[t]]]
          /\ sdPc' = [sdPc EXCEPT ![t] = "ret"]
     ELSE /\ sdU' = sdU
          /\ sdPc' = [sdPc EXCEPT ![t] = "readnext"]
  /\ UNCHANGED <<diMap, diNext, diRet, sdState, sdLock, sdArg, sdAssigned,
                 sdCalls, sdWaited, sdOthers>>

\* let u = state.next;
SdReadNext(t) ==
  /\ sdPc[t] = "readnext"
  /\ sdU' = [sdU EXCEPT ![t] = sdState.next]
  /\ sdPc' = [sdPc EXCEPT ![t] = "incr"]
  /\ UNCHANGED <<diMap, diNext, diRet, sdState, sdLock, sdArg, sdAssigned,
                 sdCalls, sdWaited, sdOthers>>

\* state.next += 1;
SdIncr(t) ==
  /\ sdPc[t] = "incr"
  /\ sdState' = [sdState EXCEPT !.next = sdState.next + 1]
  /\ sdPc' = [sdPc EXCEPT ![t] = "insert"]
  /\ UNCHANGED <<diMap, diNext, diRet, sdLock, sdArg, sdU, sdAssigned,
                 sdCalls, sdWaited, sdOthers>>

\* state.map.insert(device_id, u);
SdInsert(t) ==
  /\ sdPc[t] = "insert"
  /\ sdState' = [sdState EXCEPT !.map = MapInsert(sdState.map, sdArg[t], sdU[t])]
  /\ sdPc' = [sdPc EXCEPT ![t] = "ret"]
  /\ UNCHANGED <<diMap, diNext, diRet, sdLock, sdArg, sdU, sdAssigned,
                 sdCalls, sdWaited, sdOthers>>

\* u is returned and the MutexGuard is dropped
SdReturn(t) ==
  /\ sdPc[t] = "ret"
  /\ sdAssigned' = sdAssigned \cup {<<sdArg[t], sdU[t]>>}
  /\ sdLock' = IF sdLock = t THEN 0 ELSE sdLock
  /\ sdPc' = [sdPc EXCEPT ![t] = "idle"]
  /\ UNCHANGED <<diMap, diNext, diRet, sdState, sdArg, sdU, sdCalls,
                 sdWaited, sdOthers>>

SdNext ==
  \E t \in Threads :
    \/ \E device_id \in DeviceIdSet : SdCall(t, device_id)
    \/ SdLock(t)
    \/ SdMatchState(t)
    \/ SdLookup(t)
    \/ SdReadNext(t)
    \/ SdIncr(t)
    \/ SdInsert(t)
    \/ SdReturn(t)

SpecDeviceIds == Init /\ [][SdNext]_vars

(***************************************************************************)
(* Surface ops (webgpu/src/surface.rs): check_suboptimal,                  *)
(* op_webgpu_surface_get_current_texture, op_webgpu_surface_texture_present*)
(***************************************************************************)
MaxSurfaceOps == 3
SurfaceStatus == {"Good", "Suboptimal", "Timeout", "Outdated", "Lost"}

\* what instance.surface_get_current_texture can hand back: Err, or
\* Ok(SurfaceOutput { status, texture_id })
TextureOutputs ==
  {[ok |-> FALSE, status |-> "none", texture_id |-> "None"]}
    \cup [ok : {TRUE}, status : SurfaceStatus, texture_id : {"None", "tex_a", "tex_b"}]
\* what instance.surface_present can hand back: Err, or Ok(status)
PresentOutputs ==
  {[ok |-> FALSE, status |-> "none", texture_id |-> "None"]}
    \cup [ok : {TRUE}, status : SurfaceStatus, texture_id : {"None"}]

OpOk(rid, suboptimal) == [kind |-> "Ok", rid |-> rid, suboptimal |-> suboptimal, msg |-> ""]
OpErr(msg) == [kind |-> "Err", rid |-> 0, suboptimal |-> FALSE, msg |-> msg]
OpPanic == [kind |-> "panic", rid |-> 0, suboptimal |-> FALSE, msg |-> ""]

\* check_suboptimal
check_suboptimal_Lenient(status) ==
  IF status = "Good" THEN OpOk(0, FALSE) ELSE OpOk(0, TRUE)
check_suboptimal(status) ==
  CASE status = "Good" -> OpOk(0, FALSE)
    [] status = "Suboptimal" -> OpOk(0, TRUE)
    [] status = "Timeout" -> OpErr("Unable to get the next frame, timed out.")
    [] status = "Outdated" -> OpErr("The surface under the swap chain has changed.")
    [] status = "Lost" -> OpErr("The surface under the swap chain is lost.")

\* state.resource_table.get::<T>(rid) is Ok
ResourceTable_get(table, kind, rid) ==
  rid \in DOMAIN table /\ table[rid].kind = kind
\* state.resource_table.add(resource): the table, and the rid handed out
ResourceTable_add(table, resource) == Append(table, resource)

\* the two lookups at the head of both ops, left with ? on failure
LookupsOk(table, surface_rid, device_rid) ==
  /\ ResourceTable_get(table, "WebGpuSurface", surface_rid)
  /\ ResourceTable_get(table, "WebGpuDevice", device_rid)

\* op_webgpu_surface_get_current_texture on a table: the table it leaves
\* and its result
GetCurrentTexture(table, surface_rid, device_rid, out) ==
  IF ~LookupsOk(table, surface_rid, device_rid)
  THEN [table |-> table, result |-> OpErr("Bad resource ID")]
  ELSE IF ~out.ok
  THEN [table |-> table, result |-> OpErr("instance error")]
  ELSE LET suboptimal == check_suboptimal(out.status)
       IN IF suboptimal.kind = "Err"
          THEN [table |-> table, result |-> suboptimal]
          ELSE IF out.texture_id = "None"
          THEN [table |-> table, result |-> OpPanic]
          ELSE LET added == ResourceTable_add(table,
                              [kind |-> "WebGpuTexture", id |-> out.texture_id])
               IN [table |-> added,
                   result |-> OpOk(Len(added), suboptimal.suboptimal)]

\* op_webgpu_surface_texture_present: its result
TexturePresent(table, surface_rid, device_rid, out) ==
  IF ~LookupsOk(table, surface_rid, device_rid)
  THEN OpErr("Bad resource ID")
  ELSE IF ~out.ok
  THEN OpErr("instance error")
  ELSE LET checked == check_suboptimal(out.status)
       IN IF checked.kind = "Err" THEN checked ELSE OpOk(0, FALSE)

CallRecord(op, surface_rid, device_rid, out, before, result) ==
  [op |-> op, surface_rid |-> surface_rid, device_rid |-> device_rid,
   out |-> out, before |-> before, result |-> result]

SuGetCurrentTexture(surface_rid, device_rid, out) ==
  /\ suOps < MaxSurfaceOps
  /\ suOps' = suOps + 1
  /\ LET r == GetCurrentTexture(suTable, surface_rid, device_rid, out)
     IN /\ suTable' = r.table
        /\ suLast' = CallRecord("get_current_texture", surface_rid,
                                device_rid, out, suTable, r.result)
  /\ UNCHANGED suOthers

SuTexturePresent(surface_rid, device_rid, out) ==
  /\ suOps < MaxSurfaceOps
  /\ suOps' = suOps + 1
  /\ suLast' = CallRecord("texture_present", surface_rid, device_rid, out,
                          suTable,
                          TexturePresent(suTable, surface_rid, device_rid, out))
  /\ UNCHANGED <<suTable, suOthers>>

SuNext ==
  \E surface_rid, device_rid \in 1..3 :
    \/ \E out \in TextureOutputs :
         SuGetCurrentTexture(surface_rid, device_rid, out)
    \/ \E out \in PresentOutputs :
         SuTexturePresent(surface_rid, device_rid, out)

SpecSurface == Init /\ [][SuNext]_vars

(***************************************************************************)
(* The builder create_window hands to build(): WindowBuilder::new()        *)
(* .with_title("Denog"), then WsiCreateWindowOptions::into_window_builder  *)
(* (window.rs) over all its fields.  A builder attribute is None while no  *)
(* with_* call has set it and <<v>> once one has.                          *)
(***************************************************************************)
\* WindowBuilder::new()
WindowBuilder_new ==
  [inner_size |-> None, min_inner_size |-> None, max_inner_size |-> None,
   position |-> None, resizable |-> None, enabled_buttons |-> None,
   title |-> None, fullscreen |-> None, maximized |-> None,
   visible |-> None, transparent |-> None, decorations |-> None,
   window_level |-> None, theme |-> None, resize_increments |-> None,
   content_protected |-> None, active |-> None]

PhysicalSize(t) == [width |-> t[1], height |-> t[2]]
PhysicalPosition(t) == [x |-> t[1], y |-> t[2]]
WindowButtons_from_bits_truncate(bits) == <<"WindowButtons", bits>>
WindowLevel_from(level) == <<"WindowLevel", level>>
Theme_from(theme) == <<"Theme", theme>>

\* if let Some(v) = self.field { builder = builder.with_field(v) }
WithIfSome(field, attribute) == IF field # None THEN field ELSE attribute

\* if let Some(true) = self.fullscreen
FullscreenApplies_IfPresent(fullscreen) == fullscreen # None
FullscreenApplies(fullscreen) == fullscreen = <<TRUE>>

\* WsiCreateWindowOptions::into_window_builder, every field
WsiCreateWindowOptions_into_window_builder(self, builder) ==
  [inner_size |->
     IF self.inner_size # None THEN <<PhysicalSize(self.inner_size[1])>>
     ELSE builder.inner_size,
   min_inner_size |->
     IF self.min_inner_size # None
     THEN <<PhysicalSize(self.min_inner_size[1])>>
     ELSE builder.min_inner_size,
   max_inner_size |->
     IF self.max_inner_size # None
     THEN <<PhysicalSize(self.max_inner_size[1])>>
     ELSE builder.max_inner_size,
   position |->
     IF self.position # None THEN <<PhysicalPosition(self.position[1])>>
     ELSE builder.position,
   resizable |-> WithIfSome(self.resizable, builder.resizable),
   enabled_buttons |->
     IF self.enable_buttons # None
     THEN <<WindowButtons_from_bits_truncate(self.enable_buttons[1])>>
     ELSE builder.enabled_buttons,
   title |-> WithIfSome(self.title, builder.title),
   fullscreen |->
     IF FullscreenApplies(self.fullscreen)
     THEN <<"Some(Fullscreen::Borderless(None))">>
     ELSE builder.fullscreen,
   maximized |-> WithIfSome(self.maximized, builder.maximized),
   visible |-> WithIfSome(self.visible, builder.visible),
   transparent |-> WithIfSome(self.transparent, builder.transparent),
   decorations |-> WithIfSome(self.decorated, builder.decorations),
   window_level |->
     IF self.level # None THEN <<WindowLevel_from(self.level[1])>>
     ELSE builder.window_level,
   theme |->
     IF self.theme # None THEN <<Theme_from(self.theme[1])>>
     ELSE builder.theme,
   resize_increments |->
     IF self.resize_increments # None
     THEN <<PhysicalSize(self.resize_increments[1])>>
     ELSE builder.resize_increments,
   content_protected |->
     WithIfSome(self.content_protected, builder.content_protected),
   active |-> WithIfSome(self.active, builder.active)]

\* let mut builder = WindowBuilder::new().with_title("Denog");
\* if let Some(options) = options { builder = options.into_window_builder(builder) }
CreateWindowBuilder(options) ==
  LET builder == [WindowBuilder_new EXCEPT !.title = <<"Denog">>]
  IN IF options.present
     THEN WsiCreateWindowOptions_into_window_builder(options, builder)
     ELSE builder

\* the options create_window is run with: title, fullscreen, inner_size,
\* resizable, enable_buttons and theme take each of their cases, the other
\* fields are all absent or all present
OtherFieldsNone ==
  [min_inner_size |-> None, max_inner_size |-> None, position |-> None,
   maximized |-> None, visible |-> None, transparent |-> None,
   decorated |-> None, level |-> None, resize_increments |-> None,
   content_protected |-> None, active |-> None]
OtherFieldsSome ==
  [min_inner_size |-> <<<<1, 1>>>>, max_inner_size |-> <<<<1920, 1080>>>>,
   position |-> <<<<10, 20>>>>, maximized |-> <<TRUE>>,
   visible |-> <<FALSE>>, transparent |-> <<TRUE>>,
   decorated |-> <<FALSE>>, level |-> <<"always-on-top">>,
   resize_increments |-> <<<<8, 8>>>>, content_protected |-> <<TRUE>>,
   active |-> <<FALSE>>]
CreateOptionSet ==
  {AbsentOptions}
    \cup {o @@ r :
            o \in [present : {TRUE},
                   title : {None} \cup {<<t>> : t \in Titles},
                   fullscreen : {None, <<TRUE>>, <<FALSE>>},
                   inner_size : {None} \cup {<<z>> : z \in Sizes},
                   resizable : {None, <<TRUE>>, <<FALSE>>},
                   enable_buttons : {None, <<15>>},
                   theme : {None, <<"light">>, <<"dark">>}],
            r \in {OtherFieldsNone, OtherFieldsSome}}

CwOpInit ==
  /\ BridgeInit /\ NeIdle /\ workerGone = FALSE /\ SdInit /\ SuInit
  /\ cwOptions \in CreateOptionSet
  /\ cwPc = "call"
  /\ cwBuilder = None
  /\ SeIdle

\* op_wsi_create_window's closure / the CreateWindow arm, up to build()
CwBuild ==
  /\ cwPc = "call"
  /\ cwBuilder' = CreateWindowBuilder(cwOptions)
  /\ cwPc' = "built"
  /\ UNCHANGED <<cwOptions, bridgeVars, nevars, workerGone, dvars, suvars,
                 sevars>>

SpecCreateWindow == CwOpInit /\ [][CwBuild]_vars

(***************************************************************************)
(* impl Serialize for WsiEvent (event.rs): per variant, the length given   *)
(* to serialize_map and the keys given to serialize_entry, in order.       *)
(***************************************************************************)
WindowEventVariants ==
  {"WindowEvent::Resized", "WindowEvent::Moved",
   "WindowEvent::CloseRequested", "WindowEvent::Destroyed",
   "WindowEvent::DroppedFile", "WindowEvent::HoveredFile",
   "WindowEvent::HoveredFileCancelled",
   "WindowEvent::ReceivedCharacter", "WindowEvent::Focused",
   "WindowEvent::KeyboardInput", "WindowEvent::ModifiersChanged",
   "WindowEvent::Ime(Ime::Enabled)", "WindowEvent::Ime(Ime::Preedit)",
   "WindowEvent::Ime(Ime::Commit)", "WindowEvent::Ime(Ime::Disabled)",
   "WindowEvent::CursorMoved", "WindowEvent::CursorEntered",
   "WindowEvent::CursorLeft", "WindowEvent::MouseWheel",
   "WindowEvent::MouseInput", "WindowEvent::TouchpadPressure",
   "WindowEvent::AxisMotion", "WindowEvent::Touch",
   "WindowEvent::ScaleFactorChanged", "WindowEvent::ThemeChanged",
   "WindowEvent::Occluded"}
DeviceEventVariants ==
  {"DeviceEvent::Added", "DeviceEvent::Removed",
   "DeviceEvent::MouseMotion", "DeviceEvent::MouseWheel",
   "DeviceEvent::Motion", "DeviceEvent::Button", "DeviceEvent::Key",
   "DeviceEvent::Text"}
EventVariants ==
  WindowEventVariants \cup DeviceEventVariants
    \cup {"NewEvents", "UserEvent", "Suspended", "Resumed",
          "MainEventsCleared", "RedrawRequested", "RedrawEventsCleared",
          "LoopDestroyed"}

\* the match arm of each variant
SerializeArm(variant) ==
  CASE variant = "NewEvents" ->
         [len |-> 1, entries |-> <<"type">>]
    [] variant = "WindowEvent::Resized" ->
         [len |-> 3, entries |-> <<"type", "wid", "innerSize">>]
    [] variant = "WindowEvent::Moved" ->
         [len |-> 4, entries |-> <<"type", "wid", "position">>]
    [] variant = "WindowEvent::CloseRequested" ->
         [len |-> 2, entries |-> <<"type", "wid">>]
    [] variant = "WindowEvent::Destroyed" ->
         [len |-> 2, entries |-> <<"type", "wid">>]
    [] variant = "WindowEvent::DroppedFile" ->
         [len |-> 3, entries |-> <<"type", "wid", "path">>]
    [] variant = "WindowEvent::HoveredFile" ->
         [len |-> 3, entries |-> <<"type", "wid", "path">>]
    [] variant = "WindowEvent::HoveredFileCancelled" ->
         [len |-> 2, entries |-> <<"type", "wid">>]
    [] variant = "WindowEvent::ReceivedCharacter" ->
         [len |-> 3, entries |-> <<"type", "wid", "codePoint">>]
    [] variant = "WindowEvent::Focused" ->
         [len |-> 3, entries |-> <<"type", "wid", "focused">>]
    [] variant = "WindowEvent::KeyboardInput" ->
         [len |-> 6, entries |-> <<"type", "wid", "scanCode", "state", "virtualKeyCode", "synthetic">>]
    [] variant = "WindowEvent::ModifiersChanged" ->
         [len |-> 3, entries |-> <<"type", "wid", "modifiers">>]
    [] variant = "WindowEvent::Ime(Ime::Enabled)" ->
         [len |-> 2, entries |-> <<"type", "wid">>]
    [] variant = "WindowEvent::Ime(Ime::Preedit)" ->
         [len |-> 4, entries |-> <<"type", "wid", "string", "cursorRange">>]
    [] variant = "WindowEvent::Ime(Ime::Commit)" ->
         [len |-> 3, entries |-> <<"type", "wid", "string">>]
    [] variant = "WindowEvent::Ime(Ime::Disabled)" ->
         [len |-> 2, entries |-> <<"type", "wid">>]
    [] variant = "WindowEvent::CursorMoved" ->
         [len |-> 4, entries |-> <<"type", "wid", "position">>]
    [] variant = "WindowEvent::CursorEntered" ->
         [len |-> 2, entries |-> <<"type", "wid">>]
    [] variant = "WindowEvent::CursorLeft" ->
         [len |-> 2, entries |-> <<"type", "wid">>]
    [] variant = "WindowEvent::MouseWheel" ->
         [len |-> 4, entries |-> <<"type", "wid", "delta", "phase">>]
    [] variant = "WindowEvent::MouseInput" ->
         [len |-> 4, entries |-> <<"type", "wid", "state", "button">>]
    [] variant = "WindowEvent::TouchpadPressure" ->
         [len |-> 4, entries |-> <<"type", "wid", "pressure", "stage">>]
    [] variant = "WindowEvent::AxisMotion" ->
         [len |-> 4, entries |-> <<"type", "wid", "axis", "value">>]
    [] variant = "WindowEvent::Touch" ->
         [len |-> 6, entries |-> <<"type", "wid", "phase", "location", "force", "id">>]
    [] variant = "WindowEvent::ScaleFactorChanged" ->
         [len |-> 3, entries |-> <<"type", "wid", "scaleFactor">>]
    [] variant = "WindowEvent::ThemeChanged" ->
         [len |-> 3, entries |-> <<"type", "wid", "theme">>]
    [] variant = "WindowEvent::Occluded" ->
         [len |-> 3, entries |-> <<"type", "wid", "occluded">>]
    [] variant = "DeviceEvent::Added" ->
         [len |-> 1, entries |-> <<"type">>]
    [] variant = "DeviceEvent::Removed" ->
         [len |-> 1, entries |-> <<"type">>]
    [] variant = "DeviceEvent::MouseMotion" ->
         [len |-> 2, entries |-> <<"type", "delta">>]
    [] variant = "DeviceEvent::MouseWheel" ->
         [len |-> 2, entries |-> <<"type", "delta">>]
    [] variant = "DeviceEvent::Motion" ->
         [len |-> 3, entries |-> <<"type", "axis", "value">>]
    [] variant = "DeviceEvent::Button" ->
         [len |-> 3, entries |-> <<"type", "button", "state">>]
    [] variant = "DeviceEvent::Key" ->
         [len |-> 4, entries |-> <<"type", "scanCode", "state", "virtualKeyCode">>]
    [] variant = "DeviceEvent::Text" ->
         [len |-> 2, entries |-> <<"type", "codePoint">>]
    [] variant = "UserEvent" ->
         [len |-> 1, entries |-> <<"type">>]
    [] variant = "Suspended" ->
         [len |-> 1, entries |-> <<"type">>]
    [] variant = "Resumed" ->
         [len |-> 1, entries |-> <<"type">>]
    [] variant = "MainEventsCleared" ->
         [len |-> 1, entries |-> <<"type">>]
    [] variant = "RedrawRequested" ->
         [len |-> 2, entries |-> <<"type", "wid">>]
    [] variant = "RedrawEventsCleared" ->
         [len |-> 1, entries |-> <<"type">>]
    [] variant = "LoopDestroyed" ->
         [len |-> 1, entries |-> <<"type">>]

SeOpInit ==
  /\ BridgeInit /\ NeIdle /\ workerGone = FALSE /\ SdInit /\ SuInit
  /\ CwIdle
  /\ seEvent \in EventVariants
  /\ sePc = "start"
  /\ seDeclared = 0
  /\ seEntries = << >>

\* let mut s = s.serialize_map(Some(len))?;
SeSerializeMap ==
  /\ sePc = "start"
  /\ seDeclared' = SerializeArm(seEvent).len
  /\ sePc' = "entries"
  /\ UNCHANGED <<seEvent, seEntries, seOthers>>

\* s.serialize_entry(key, ..)?; the next one of the arm
SeSerializeEntry ==
  /\ sePc = "entries"
  /\ Len(seEntries) < Len(SerializeArm(seEvent).entries)
  /\ seEntries' = Append(seEntries,
                         SerializeArm(seEvent).entries[Len(seEntries) + 1])
  /\ UNCHANGED <<seEvent, sePc, seDeclared, seOthers>>

\* s.end(), after the arm's last entry
SeEnd ==
  /\ sePc = "entries"
  /\ Len(seEntries) = Len(SerializeArm(seEvent).entries)
  /\ sePc' = "ended"
  /\ UNCHANGED <<seEvent, seDeclared, seEntries, seOthers>>

SpecSerialize == SeOpInit /\ [][SeSerializeMap \/ SeSerializeEntry \/ SeEnd]_vars

(***************************************************************************)
(* op_wsi_next_event (lib.rs): the loop around proxy.next_event().         *)
(***************************************************************************)
\* longest sequence of outcomes tried
MaxYields == 4

\* what one call of proxy.next_event().await can produce: an event, the
\* internal one among them, or the receiver-in-use error
NeOutcomes ==
  {"WsiEvent::Internal", "WsiEvent::WindowEvent",
   "WsiEvent::MainEventsCleared", "Err(Receiver already in use)"}

\* the match on the awaited value: WsiEvent::Internal => continue,
\* event => return Ok(event); the ? before it returns an Err
NeMatch_ReturnAll(y) == "return"
NeMatch(y) == IF y = "WsiEvent::Internal" THEN "continue" ELSE "return"


NeOpInit ==
  /\ BridgeInit
  /\ neYields \in UNION {[1..k -> NeOutcomes] : k \in 0..MaxYields}
  /\ nePc = "call" /\ neCalls = 0 /\ neMarkers = 0 /\ neOut = "none"
  /\ workerGone = FALSE
  /\ SdInit
  /\ SuInit
  /\ CwIdle
  /\ SeIdle

\* loop { proxy.next_event() ..: the call takes the receiver and sends the
\* marker, or fails at once when the receiver is in use
NeOpCall ==
  /\ nePc = "call"
  /\ neCalls' = neCalls + 1
  /\ neMarkers' =
       IF neCalls' <= Len(neYields)
          /\ neYields[neCalls'] = "Err(Receiver already in use)"
       THEN neMarkers ELSE neMarkers + 1
  /\ nePc' = "await"
  /\ UNCHANGED <<neYields, neOut, neOthers>>

\* .. .await? { WsiEvent::Internal => continue, event => return Ok(event) }
NeOpYield ==
  /\ nePc = "await"
  /\ neCalls <= Len(neYields)
  /\ LET y == neYields[neCalls] IN
       IF NeMatch(y) = "continue"
       THEN /\ nePc' = "call"
            /\ neOut' = neOut
       ELSE /\ nePc' = "done"
            /\ neOut' = y
  /\ UNCHANGED <<neYields, neCalls, neMarkers, neOthers>>

NeOpNext == NeOpCall \/ NeOpYield

SpecNextEventOp == NeOpInit /\ [][NeOpNext]_vars

(***************************************************************************)
(* Properties.                                                             *)
(***************************************************************************)
\* an execute-style call is in progress on the proxy thread
InExecute == wpc \in {"ex_send", "ex_wake", "ex_recv"}

\* a next_event call has sent its marker and has not received its event
MarkerSentNoEvent ==
  \/ neState = "running" /\ wpc = "ne_flag"
  \/ neState = "awaiting"

\* C1: every execute-style call issued before a next_event call has had its
\* reply received by its caller for as long as that next_event call is in
\* progress, hence before it resolves; and no execute-style request is left
\* unserviced when the hijacked thread consumes the call's marker.
C1_RepliesBeforeNextEvent ==
  /\ [](neState # "none" => execReplied >= neIssued)
  /\ [][(recvN' = recvN + 1 /\ ChanFirst(reqCh).req.kind = "NextEvent")
          => (execReplied = execSent /\ neState # "none"
              /\ hpc = "recv")]_vars

\* C1 witness: a next_event call issued after two replied execute-style
\* calls has its event buffered and is about to resolve
C1_Witness ==
  /\ neState # "none"
  /\ neIssued >= 2
  /\ execReplied >= 2
  /\ ChanCanRecv(evCh)

C3_SecondNextEventFails ==
  /\ [][(lastRet' # lastRet
           /\ lastRet'.kind = "Err(Receiver already in use)")
          => (/\ ~event_rx /\ neState # "none"
              /\ wpc = "idle" /\ wpc' = "idle"
              /\ UNCHANGED <<reqCh, evCh, wakeQ, neState, neCaller,
                             event_rx, waiting_for_event, sentN, rcvdN>>)]_vars
  /\ [][(neState' = "running" /\ wpc' = "ne_send" /\ wpc = "idle")
          => (event_rx /\ neState = "none")]_vars
  /\ [][(rcvdN' = rcvdN + 1)
          => (/\ lastRet' = Ret(neCaller, "event", NoRes,
                                ChanFirst(evCh).kind)
              /\ ChanFirst(evCh).n = rcvdN + 1)]_vars

\* C3 witness: a second call failed while the first call's event is buffered
C3_Witness ==
  /\ lastRet.kind = "Err(Receiver already in use)"
  /\ neState = "awaiting"
  /\ ChanCanRecv(evCh)

\* C4 as stated: the flag is true exactly while a next_event call has sent
\* its marker and has not received its event
C4_FlagIffOutstanding == waiting_for_event <=> MarkerSentNoEvent

\* C4 amended: the flag is true exactly while a next_event call is suspended
\* awaiting its event and no execute-style call has fired the wake signal
\* since that call set the flag; so a true flag implies a next_event call
\* that has sent its marker and has not received its event.
C4_FlagIffAwaitingAndNotWoken ==
  /\ waiting_for_event <=> (neState = "awaiting" /\ ~wokeSince)
  /\ waiting_for_event => MarkerSentNoEvent
  /\ wokeSince => (neState = "awaiting" /\ wakeFired > 0)

\* C4 witness: the flag was cleared by an execute-style call while the
\* next_event call is still awaiting its event
C4_Witness ==
  /\ neState = "awaiting"
  /\ ~waiting_for_event
  /\ wokeSince
  /\ wpc = "idle"

\* C5: the flag does not change between the request's send and the test;
\* the test fires exactly one wake signal and clears the flag when the flag
\* is true, fires none and leaves it false otherwise; no other step of the
\* call fires a wake signal.
C5_WakeIffWaiting ==
  /\ [][(wpc = "ex_send" /\ wpc' = "ex_wake")
          => waiting_for_event' = waiting_for_event]_vars
  /\ [][(wpc = "ex_wake" /\ wpc' # "ex_wake")
          => (/\ ~waiting_for_event'
              /\ wakeQ' = wakeQ + (IF waiting_for_event THEN 1 ELSE 0)
              /\ wakeFired' = wakeFired
                              + (IF waiting_for_event THEN 1 ELSE 0))]_vars
  /\ [][(wakeFired' # wakeFired \/ wakeQ' > wakeQ)
          => (wpc = "ex_wake" /\ waiting_for_event)]_vars

\* C5 witness: a call has just fired the wake signal and waits for its reply
C5_Witness ==
  /\ wpc = "ex_recv"
  /\ wokeSince
  /\ ~waiting_for_event
  /\ wakeQ = 1
  /\ wakeFired = 1


\* C6 as stated: no event put on the event channel, and none returned by
\* next_event, is the wake marker
C6_WakeMarkerNeverForwarded ==
  /\ \A i \in 1..Len(evCh) : evCh[i].kind # "WsiEvent::UserEvent"
  /\ lastRet.ev # "WsiEvent::UserEvent"

\* C6 amended: the callback forwards every occurrence, the wake marker
\* included: each injected wake signal is delivered as Event::UserEvent and
\* forwarded exactly once, as WsiEvent::UserEvent, and nothing else is
\* forwarded as WsiEvent::UserEvent; every occurrence handed to the callback
\* is forwarded before the next one is taken.
C6_WakeMarkerForwardedAsUserEvent ==
  /\ wakeFired = wakeQ + userFwd
                 + (IF hev = "Event::UserEvent" THEN 1 ELSE 0)
  /\ osN = (fwdN - userFwd) + (IF hev \in RealKinds THEN 1 ELSE 0)
  /\ \A i \in 1..Len(evCh) :
       evCh[i].kind = "WsiEvent::UserEvent" => userFwd > 0
  /\ lastRet.ev = "WsiEvent::UserEvent" => userFwd > 0
  /\ (hev # "none") <=> (hpc = "forward")

\* C6 witness: a next_event call resolved to the forwarded wake marker
C6_Witness ==
  /\ lastRet.kind = "event"
  /\ lastRet.ev = "WsiEvent::UserEvent"
  /\ wakeFired = 1
  /\ userFwd = 1

\* the result the caller of the running execute-style call is owed, from
\* its own request and the registry
Owed(req, ws, res) ==
  CASE req.kind = "CreateWindow" ->
         \/ res.tag = "Err(OsError)"
         \/ /\ res.tag = "Ok"
            /\ Registered(ws, res.window_id)
            /\ ws[res.window_id] = BuiltWindow(BuilderFor(req.options))
    [] req.kind = "WindowInnerSize" ->
         res = Res("size", 0, "", Some(ws[req.window_id].inner_size))
    [] req.kind = "WindowTitle" ->
         res = Res("title", 0, ws[req.window_id].title, None)
    [] req.kind = "CreateWebGpuSurface" ->
         res = Res("surface", req.window_id, "", None)
    [] OTHER -> res = Unit

\* C7: the reply being sent is the one computed for the request of the
\* caller blocked on that reply channel; a reply is received only by the
\* caller that owns the channel, as the value sent; and a call gets one
\* reply.
C7_ReplyToOwnCaller ==
  /\ [](hpc = "reply"
          => (/\ wpc \in {"ex_wake", "ex_recv"}
              /\ hreq = wreq
              /\ cur \in Callers
              /\ Owed(wreq, windows, hres)))
  /\ [][(execReplied' = execReplied + 1)
          => (/\ wpc = "ex_recv" /\ hpc = "reply"
              /\ hreq.result_tx = wreq.result_tx
              /\ lastRet' = Ret(cur, "reply", hres, "none")
              /\ wpc' = "idle")]_vars
  /\ [](execReplied <= execSent /\ execSent <= execReplied + 1)
  /\ [](wpc = "idle" => execReplied = execSent)

\* C7 witness: two windows of different sizes are registered and caller 2
\* has received the size of window 2
C7_Witness ==
  /\ DOMAIN windows = {1, 2}
  /\ windows[1].inner_size # windows[2].inner_size
  /\ lastRet.caller = 2
  /\ lastRet.kind = "reply"
  /\ lastRet.res = Res("size", 0, "", Some(windows[2].inner_size))
  /\ windows[2].inner_size = <<640, 480>>

\* C8: the hijacked thread receives the requests in the order they were
\* sent, none skipped or repeated, and it receives a request only while it
\* holds no request whose reply is still to be sent.
C8_FifoOneAtATime ==
  /\ [](\A i \in 1..Len(reqCh) : reqCh[i].seq = recvN + i)
  /\ [](sentN = recvN + Len(reqCh))
  /\ [][(recvN' # recvN)
          => (/\ recvN' = recvN + 1
              /\ ChanFirst(reqCh).seq = recvN + 1
              /\ hpc = "recv"
              /\ hreq = NoReq
              /\ hreq' \in {NoReq, ChanFirst(reqCh).req})]_vars
  /\ [](hreq # NoReq <=> hpc \in {"reply", "panicked"})

\* C8 witness: the marker and an execute-style request sent after it have
\* both been received, in that order
C8_Witness ==
  /\ started
  /\ hpc = "reply"
  /\ recvN >= 3
  /\ execSent >= 2

\* C9: the events forwarded and not yet returned are exactly those in the
\* event channel, in forwarding order; an event leaves the channel only by
\* being returned to the caller of the outstanding next_event call, and the
\* one returned is the oldest.
C9_EventsExactlyOnceInOrder ==
  /\ [](\A i \in 1..Len(evCh) : evCh[i].n = rcvdN + i)
  /\ [](fwdN = rcvdN + Len(evCh))
  /\ [][(evCh' # evCh)
          => \/ /\ fwdN' = fwdN + 1 /\ rcvdN' = rcvdN
                /\ evCh' = Append(evCh, [kind |-> WsiEventFrom(hev),
                                         n |-> fwdN + 1])
             \/ /\ rcvdN' = rcvdN + 1 /\ fwdN' = fwdN
                /\ neState # "none" /\ neState' = "none"
                /\ lastRet' = Ret(neCaller, "event", NoRes,
                                  ChanFirst(evCh).kind)
                /\ evCh' = Tail(evCh)]_vars
  /\ [][(rcvdN' # rcvdN \/ fwdN' # fwdN) => evCh' # evCh]_vars

\* C9 witness: the second forwarded event has been returned
C9_Witness ==
  /\ rcvdN = 2
  /\ fwdN = 2
  /\ lastRet.kind = "event"

\* C10 as stated: once DestroyWindow(W) was serviced, servicing any request
\* against W panics the hijacked thread instead of producing a reply
C10_DestroyedIdIsDetected ==
  [][(/\ recvN' = recvN + 1
      /\ ChanFirst(reqCh).req.kind \in ExecKinds \ {"CreateWindow"}
      /\ ChanFirst(reqCh).req.window_id \in destroyed)
       => hpc' = "panicked"]_vars


\* the request held by the hijacked thread targets a WindowId that is
\* absent from the registry
RegistryViolation ==
  hreq.kind \in WindowKinds /\ ~Registered(windows, hreq.window_id)

\* C11 as stated: a registry consistency violation stays local to the
\* hijacked thread and leaves the protocol running: the drain loop is still
\* in handle_requests or the native loop, and the proxy thread is not taken
\* down, so that later requests are received and replied to
C11_ViolationKeepsProtocol ==
  RegistryViolation => (hpc # "panicked" /\ wpc # "panicked")


\* C12: servicing CreateWindow never panics; when the native library
\* rejects the creation the registry is left as it was and the typed error
\* is what the caller receives on its reply channel, after which the drain
\* loop is back at request_rx.recv().
C12_CreateErrorIsReturned ==
  /\ [][(recvN' = recvN + 1 /\ ChanFirst(reqCh).req.kind = "CreateWindow")
          => (/\ hpc' = "reply"
              /\ \/ hres'.tag = "Err(OsError)" /\ windows' = windows
                 \/ /\ hres'.tag = "Ok"
                    /\ hres'.window_id \notin DOMAIN windows
                    /\ DOMAIN windows' =
                         DOMAIN windows \cup {hres'.window_id})]_vars
  /\ [][(execReplied' = execReplied + 1 /\ hres.tag = "Err(OsError)")
          => (/\ wreq.kind = "CreateWindow"
              /\ lastRet' = Ret(cur, "reply",
                                Res("Err(OsError)", 0, "", None), "none")
              /\ windows' = windows
              /\ hpc' = "recv"
              /\ wpc' = "idle")]_vars
  /\ [](hpc = "panicked" => hreq.kind # "CreateWindow")

\* C12 witness: create_window has returned the error to its caller, the
\* registry still holds the one window created before, and the drain loop
\* waits for the next request
C12_Witness ==
  /\ lastRet.kind = "reply"
  /\ lastRet.res.tag = "Err(OsError)"
  /\ DOMAIN windows = {1}
  /\ hpc = "recv"
  /\ wpc = "idle"


\* C13: until event_loop.run is entered the hijacked thread is in the
\* pre-drain, no wake signal has been fired and nothing was forwarded; run
\* is entered by the step that receives a NextEvent marker; and a reply to
\* a request issued before any next_event call is received while run has
\* not been entered.
C13_PreDrainServesEarlyRequests ==
  /\ [](~started => (/\ hpc \in {"recv", "reply", "panicked"}
                     /\ wakeFired = 0 /\ wakeQ = 0
                     /\ fwdN = 0 /\ hev = "none"))
  /\ [][(started' /\ ~started)
          => (/\ hpc = "recv"
              /\ ChanFirst(reqCh).req.kind = "NextEvent"
              /\ recvN' = recvN + 1)]_vars
  /\ [][(execReplied' = execReplied + 1 /\ sentN = execSent)
          => (~started /\ ~started' /\ hpc' = "recv")]_vars
  /\ [](started => sentN > execSent)

\* C13 witness: two requests issued before the first next_event have been
\* replied to and run has not been entered
C13_Witness ==
  /\ ~started
  /\ sentN = execSent
  /\ execReplied = 2
  /\ lastRet.kind = "reply"
  /\ neState = "none"


\* C14: the callback is entered at the forwarding statement; the occurrence
\* it was given is put on the event channel by the next step the hijacked
\* thread takes, with no request received and the registry untouched in
\* between; a request is received only when no occurrence is waiting to be
\* forwarded, so inside run every invocation has forwarded before it drains.
C14_ForwardBeforeDrain ==
  /\ [][(hpc = "parked" /\ hpc' # "parked")
          => (hpc' = "forward" /\ hev' \in NativeKinds
              /\ recvN' = recvN /\ fwdN' = fwdN)]_vars
  /\ [][(hpc = "forward" /\ hpc' # "forward")
          => (/\ hpc' = "recv"
              /\ fwdN' = fwdN + 1
              /\ evCh' = Append(evCh, [kind |-> WsiEventFrom(hev),
                                       n |-> fwdN + 1])
              /\ recvN' = recvN
              /\ windows' = windows)]_vars
  /\ [][(recvN' # recvN) => (hev = "none" /\ hpc = "recv")]_vars
  /\ []((started /\ hpc \in {"recv", "reply"})
          => (fwdN >= 1 /\ fwdN = osN + wakeFired - wakeQ))

\* C14 witness: an execute-style request was enqueued after the platform's
\* occurrence was handed to the callback and before it was forwarded
C14_Witness ==
  /\ hpc = "forward"
  /\ hev \in RealKinds
  /\ Len(reqCh) = 1
  /\ reqCh[1].req.kind \in ExecKinds


\* C15: the request channel never holds more than one request that was sent
\* and not yet received; a second sender stays in its send until the drain
\* loop has taken the first, also when the first is the NextEvent marker.
C15_OneRequestInFlight ==
  /\ Len(reqCh) <= 1
  /\ sentN - recvN = Len(reqCh)
  /\ (wpc = "ex_send" /\ Len(reqCh) = 1)
       => reqCh[1].req.kind = "NextEvent"

\* C15 witness: the marker is still on the channel and an execute-style
\* call that follows it at once is held in its send
C15_Witness ==
  /\ wpc = "ex_send"
  /\ Len(reqCh) = 1
  /\ reqCh[1].req.kind = "NextEvent"
  /\ hpc \in {"recv", "forward"}


\* C16: the events forwarded and not yet received by next_event, together
\* with the one occurrence the callback may be about to forward, are never
\* more than one; so the event channel never buffers more than one event.
C16_OneEventBuffered ==
  /\ Len(evCh) <= 1
  /\ fwdN - rcvdN = Len(evCh)
  /\ Len(evCh) + (IF hpc = "forward" THEN 1 ELSE 0) <= 1

\* C16 witness: the second forwarded event is the one buffered
C16_Witness ==
  /\ Len(evCh) = 1
  /\ evCh[1].n = 2
  /\ rcvdN = 1


\* C17: while the hijacked thread is at result_tx.send, the proxy thread is
\* inside the call that issued that very request, past its send and at or
\* just before result_rx.recv() on the same reply channel, and nothing was
\* sent after that request; the send then completes as the caller's receive,
\* which ends the call.
C17_ReplyMeetsItsCaller ==
  /\ [](hpc = "reply"
          => (/\ wpc \in {"ex_wake", "ex_recv"}
              /\ wreq = hreq
              /\ hreq.result_tx = execSent
              /\ execSent = execReplied + 1
              /\ reqCh = <<>>
              /\ sentN = recvN))
  /\ []((hpc = "reply" /\ wpc = "ex_recv") => ENABLED HReply)
  /\ []((hpc = "reply" /\ wpc = "ex_wake") => ENABLED ExWake)
  /\ [][(hpc = "reply" /\ hpc' # "reply")
          => (/\ wpc = "ex_recv" /\ wpc' = "idle"
              /\ hpc' = "recv"
              /\ lastRet' = Ret(cur, "reply", hres, "none")
              /\ execReplied' = execReplied + 1)]_vars
  /\ [][(wpc = "ex_recv" /\ wpc' = "idle") => hpc = "reply"]_vars

\* C17 witness: the reply is ready before the caller has entered its receive
C17_Witness ==
  /\ hpc = "reply"
  /\ wpc = "ex_wake"
  /\ hreq.kind = "DestroyWindow"
  /\ started


\* C18: a window_get_title that is the next execute-style call after a
\* window_set_title(W, X) of the same caller on the same id returns X; and
\* whenever a WindowTitle request on an id is serviced after a WindowSetTitle
\* on that id, it is serviced without panic and its result is the title of
\* the last such setter.
C18_TitleReadAfterWrite ==
  /\ [][(/\ hpc = "reply" /\ hpc' = "recv"
         /\ hreq.kind = "WindowTitle"
         /\ prevSet # NoSet
         /\ prevSet.window_id = hreq.window_id
         /\ prevSet.caller = cur)
          => lastRet' = Ret(cur, "reply",
                            Res("title", 0, prevSet.title, None), "none")]_vars
  /\ [][(/\ hpc = "recv" /\ recvN' = recvN + 1
         /\ hreq'.kind = "WindowTitle"
         /\ hreq'.window_id \in DOMAIN lastSetTitle)
          => (/\ hpc' = "reply"
              /\ hres' = Res("title", 0, lastSetTitle[hreq'.window_id],
                             None))]_vars
  /\ [](\A w \in DOMAIN lastSetTitle :
          w \in DOMAIN windows /\ windows[w].title = lastSetTitle[w])

\* C18 witness: the getter that follows the same caller's setter on a window
\* created with the default title has its result ready
C18_Witness ==
  /\ hpc = "reply"
  /\ hreq.kind = "WindowTitle"
  /\ prevSet = [caller |-> cur, window_id |-> hreq.window_id, title |-> "X"]
  /\ hres = Res("title", 0, "X", None)
  /\ execReplied = 2
  /\ DOMAIN windows = {hreq.window_id}


C20_RegistryOwnedByHijackedThread ==
  /\ [][windows' # windows
          => (/\ hpc = "recv" /\ recvN' = recvN + 1
              /\ hreq' = ChanFirst(reqCh).req
              /\ wvars' = wvars)]_vars
  /\ [][(wvars' # wvars /\ ~(hpc = "reply" /\ hpc' = "recv"))
          => hvars' = hvars]_vars
  /\ [][hres' # hres
          => \/ hpc = "recv" /\ recvN' = recvN + 1 /\ wvars' = wvars
             \/ hpc = "reply" /\ hres' = NoRes]_vars
  /\ [][(lastRet' # lastRet /\ lastRet'.res # NoRes)
          => (/\ hpc = "reply" /\ lastRet'.res = hres
              /\ wreq = hreq /\ wpc = "ex_recv")]_vars

\* C20 witness: a serviced CreateWindow has put the second entry into the
\* registry while its caller is blocked in the receive
C20_Witness ==
  /\ hpc = "reply"
  /\ hreq.kind = "CreateWindow"
  /\ hres.tag = "Ok"
  /\ DOMAIN windows = WindowIds
  /\ wpc = "ex_recv"
  /\ started


\* C21: the step in which a next_event call receives its event leaves the
\* receiver slot occupied and the flag false; the slot is empty exactly
\* while a call is between taking the receiver and restoring it; so the
\* receiver-in-use error is returned only while another call is in progress,
\* and a call made when none is in progress takes the receiver.
C21_SlotRestoredAfterEvent ==
  /\ [][(rcvdN' = rcvdN + 1)
          => (/\ event_rx' /\ ~waiting_for_event'
              /\ neState' = "none"
              /\ lastRet'.kind = "event")]_vars
  /\ [](~event_rx <=> neState # "none")
  /\ [](neState = "none" => ~waiting_for_event)
  /\ [][(lastRet' # lastRet
           /\ lastRet'.kind = "Err(Receiver already in use)")
          => neState # "none"]_vars
  /\ []((installed /\ wpc = "idle" /\ neState = "none" /\ sentN < MaxReq)
          => ENABLED NextEventTake)

\* C21 witness: a third next_event call, made after two finished ones, has
\* taken the receiver
C21_Witness ==
  /\ rcvdN = 2
  /\ neState = "running"
  /\ wpc = "ne_send"
  /\ ~event_rx


\* C22: the step in which a next_event call returns the receiver-in-use
\* error changes nothing but that call's return value: no marker is sent, no
\* wake signal is fired, the flag and the receiver slot keep their values,
\* and the hijacked thread, both channels and the outstanding call are as
\* they were.
C22_BusyCallHasNoEffect ==
  [][(lastRet' # lastRet /\ lastRet'.kind = "Err(Receiver already in use)")
       => (/\ lastRet'.res = NoRes /\ lastRet'.ev = "none"
           /\ UNCHANGED <<hvars, cvars, histvars>>
           /\ UNCHANGED <<wpc, cur, wreq, neState, neCaller, event_rx,
                          waiting_for_event>>)]_vars

\* C22 witness: the call failed while the first call is suspended with the
\* flag set, the hijacked thread parked, and nothing sent or fired
C22_Witness ==
  /\ lastRet.kind = "Err(Receiver already in use)"
  /\ neState = "awaiting"
  /\ waiting_for_event
  /\ hpc = "parked"
  /\ reqCh = << >>
  /\ wakeFired = 0
  /\ sentN = 1


\* C23: a wake signal is fired only while the hijacked thread is parked in
\* the native loop, never while it is in the callback forwarding an
\* occurrence or draining the request channel.
C23_WakeOnlyWhenParked ==
  [][(wakeFired' > wakeFired) => hpc = "parked"]_vars


\* C24: once the hijacked thread has terminated, the proxy thread is inside
\* the call that met the termination; no call returns a value and nothing is
\* sent again; the call blocked on its disconnected reply channel can only
\* panic, and a panicked proxy thread stays panicked.
C24_DisconnectIsFatal ==
  /\ [](hpc = "panicked" => wpc \in {"ex_wake", "ex_recv", "panicked"})
  /\ [][hpc = "panicked"
          => (/\ sentN' = sentN /\ reqCh' = reqCh
              /\ execReplied' = execReplied /\ rcvdN' = rcvdN
              /\ lastRet' = lastRet)]_vars
  /\ [][(hpc = "panicked" /\ wpc = "ex_recv" /\ wpc' # wpc)
          => wpc' = "panicked"]_vars
  /\ []((hpc = "panicked" /\ wpc = "ex_recv") => ENABLED WorkerDisconnected)
  /\ [](wpc = "panicked" => hpc = "panicked")
  /\ [][wpc = "panicked" => wpc' = "panicked"]_vars

\* C24 witness: the proxy thread panicked in result_rx.recv() of the call
\* whose request ended the hijacked thread, with a next_event outstanding
C24_Witness ==
  /\ hpc = "panicked"
  /\ wpc = "panicked"
  /\ wreq.kind \in WindowKinds
  /\ neState = "awaiting"
  /\ lastRet = NoRet


\* C25: an op called when no proxy was installed ends the process through
\* process exit with a message that names the API, and no request was sent.
C25_EveryOpFailsFastNamingApi ==
  opExit # NoExit
    => (/\ opExit.how = "exit(70)"
        /\ opExit.api # ""
        /\ sentN = 0 /\ reqCh = << >> /\ evCh = << >> /\ wakeQ = 0)


\* C26: as long as no arm has panicked, the hijacked thread is in the drain
\* loop (receiving, or handing over a reply), forwarding an occurrence, or
\* parked in the native loop; before run it is in the pre-drain; it reaches
\* the panicked state only through an arm that unwraps the lookup of an
\* absent id; and each of its non-waiting positions has its next step
\* enabled once the proxy thread is at the matching receive.
C26_HijackedThreadNeverLeaves ==
  /\ [](hpc \in {"recv", "reply", "parked", "forward", "panicked"})
  /\ [](~started => hpc \in {"recv", "reply", "panicked"})
  /\ [][(hpc' = "panicked" /\ hpc # "panicked")
          => (/\ hpc = "recv" /\ ChanCanRecv(reqCh)
              /\ ArmPanics(ChanFirst(reqCh).req, windows))]_vars
  /\ [](hpc = "forward" => ENABLED HForward)
  /\ []((hpc = "reply" /\ wpc = "ex_recv") => ENABLED HReply)
  /\ []((hpc = "recv" /\ ChanCanRecv(reqCh))
          => ENABLED (HRecvNextEvent \/ HRecvCreateWindow
                      \/ HRecvWindowRequest))

\* C26 witness: after the pre-drain, two forwarded occurrences and a
\* serviced request, the thread is parked in the native loop again
C26_Witness ==
  /\ hpc = "parked"
  /\ fwdN >= 2
  /\ execReplied >= 1
  /\ recvN >= 4


\* NextEvent markers consumed by the hijacked thread: the requests received
\* less the execute-style requests among them
MarkersConsumed ==
  recvN - (execSent
           - Cardinality({i \in 1..Len(reqCh) :
                            reqCh[i].req.kind # "NextEvent"}))

\* C27: with F the events forwarded and M the markers consumed,
\* F <= M <= F + 1; M = F + 1 exactly while the thread is parked or about to
\* forward, M = F while it drains; and the thread leaves the drain loop for
\* the native loop only in a step that consumes a marker.
C27_ForwardsAndMarkersAlternate ==
  /\ [](fwdN <= MarkersConsumed /\ MarkersConsumed <= fwdN + 1)
  /\ [](hpc \in {"parked", "forward"} => MarkersConsumed = fwdN + 1)
  /\ [](hpc \in {"recv", "reply"} => MarkersConsumed = fwdN)
  /\ [][(hpc' = "parked" /\ hpc # "parked")
          => (/\ hpc = "recv"
              /\ ChanFirst(reqCh).req.kind = "NextEvent"
              /\ recvN' = recvN + 1
              /\ reqCh' = Tail(reqCh))]_vars

\* C27 witness: inside the second callback invocation a request was
\* serviced and the drain loop waits on: two markers, two events
C27_Witness ==
  /\ hpc = "recv"
  /\ fwdN = 2
  /\ MarkersConsumed = 2
  /\ execReplied >= 1
  /\ neState = "none"


\* C28: every step that puts an event on the event channel finds its buffer
\* empty, every earlier event having been received by a next_event call;
\* while the hijacked thread is at the blocking send a next_event call is in
\* progress and the send is enabled, so it never waits for room.
C28_ForwardFindsBufferEmpty ==
  /\ [][(fwdN' = fwdN + 1)
          => (/\ evCh = << >>
              /\ rcvdN = fwdN
              /\ Len(evCh') = 1
              /\ hpc = "forward")]_vars
  /\ [](hpc = "forward"
          => (/\ evCh = << >>
              /\ rcvdN = fwdN
              /\ neState # "none"
              /\ ENABLED HForward))

\* C28 witness: the second occurrence is about to be forwarded, the first
\* event was received, and the second next_event call is suspended
C28_Witness ==
  /\ hpc = "forward"
  /\ fwdN = 1
  /\ rcvdN = 1
  /\ evCh = << >>
  /\ neState = "awaiting"


\* next_event calls that have set the flag: the markers sent, less the call
\* that has sent its marker and not yet set the flag
CallsFlagged ==
  (sentN - execSent) - (IF wpc = "ne_flag" THEN 1 ELSE 0)

\* C29: a wake signal is fired only for a suspended next_event call for
\* which none was fired yet, one at a time; so the wake signals fired never
\* outnumber the next_event calls that have set the flag, and after one was
\* fired the flag stays false until a later call sets it.
C29_OneWakePerNextEvent ==
  /\ [][(wakeFired' # wakeFired)
          => (/\ wakeFired' = wakeFired + 1
              /\ neState = "awaiting"
              /\ ~wokeSince /\ wokeSince'
              /\ ~waiting_for_event')]_vars
  /\ [](wakeFired <= CallsFlagged)
  /\ [](wokeSince => ~waiting_for_event)
  /\ [][(waiting_for_event' /\ ~waiting_for_event)
          => (wpc = "ne_flag" /\ sentN - execSent > wakeFired)]_vars

\* C29 witness: two execute-style calls were sent while one next_event call
\* is outstanding, and one wake signal was fired
C29_Witness ==
  /\ neState = "awaiting"
  /\ execSent - neIssued >= 2
  /\ sentN - execSent = 1
  /\ wakeFired = 1
  /\ wpc = "ex_recv"


\* C30: an execute-style request is received while a next_event call is
\* suspended only inside a callback invocation that has already forwarded
\* its occurrence; so while its reply is handed over, and when the call
\* returns, the event for the outstanding next_event call (the one numbered
\* like its marker) is in the event channel.
C30_ServicedAfterForward ==
  /\ [][(/\ recvN' = recvN + 1
         /\ ChanFirst(reqCh).req.kind # "NextEvent"
         /\ neState = "awaiting")
          => (/\ started /\ hpc = "recv" /\ hev = "none"
              /\ fwdN = sentN - execSent
              /\ Len(evCh) = 1
              /\ evCh[1].n = fwdN)]_vars
  /\ []((hpc = "reply" /\ neState = "awaiting")
          => (/\ fwdN = sentN - execSent
              /\ fwdN = MarkersConsumed
              /\ Len(evCh) = 1
              /\ rcvdN = fwdN - 1))
  /\ [][(execReplied' = execReplied + 1 /\ neState = "awaiting")
          => (/\ Len(evCh') = 1
              /\ evCh'[1].n = sentN - execSent
              /\ neState' = "awaiting")]_vars

\* C30 witness: the request was sent to a parked hijacked thread, the wake
\* signal was delivered and forwarded, and the reply is ready
C30_Witness ==
  /\ hpc = "reply"
  /\ neState = "awaiting"
  /\ wpc = "ex_recv"
  /\ wakeFired = 1 /\ wakeQ = 0
  /\ Len(evCh) = 1
  /\ evCh[1].kind = "WsiEvent::UserEvent"


\* C31: whenever a caller is blocked on its reply while the hijacked thread
\* is parked in the native loop, a wake signal is pending, so the native
\* loop can hand it to the callback; the caller's request is then still on
\* the request channel and the flag is cleared.
C31_NoLostWakeUp ==
  (wpc = "ex_recv" /\ hpc = "parked")
    => (/\ wakeQ > 0
        /\ ENABLED NativeDeliverWake
        /\ Len(reqCh) = 1 /\ reqCh[1].req = wreq
        /\ ~waiting_for_event
        /\ neState = "awaiting")

\* C31 witness: after a first event was forwarded and received, a caller is
\* blocked on its reply, the thread is parked, one wake signal is pending
C31_Witness ==
  /\ wpc = "ex_recv"
  /\ hpc = "parked"
  /\ rcvdN >= 1
  /\ wakeQ = 1
  /\ wokeSince


C33_OnlyCreateAndDestroyChangeKeys ==
  /\ [][(recvN' = recvN + 1 /\ ChanFirst(reqCh).req.kind = "CreateWindow")
          => IF hres'.tag = "Ok"
             THEN /\ hres'.window_id \notin DOMAIN windows
                  /\ DOMAIN windows' = DOMAIN windows \cup {hres'.window_id}
                  /\ \A x \in DOMAIN windows : windows'[x] = windows[x]
             ELSE windows' = windows]_vars
  /\ [][(recvN' = recvN + 1 /\ ChanFirst(reqCh).req.kind = "DestroyWindow")
          => (/\ DOMAIN windows'
                   = DOMAIN windows \ {ChanFirst(reqCh).req.window_id}
              /\ \A x \in DOMAIN windows' : windows'[x] = windows[x])]_vars
  /\ [][(DOMAIN windows' # DOMAIN windows)
          => (/\ recvN' = recvN + 1
              /\ ChanFirst(reqCh).req.kind
                   \in {"CreateWindow", "DestroyWindow"})]_vars

\* C33 witness: a second window was created next to one whose title had
\* been set, and that entry is still there with its title
C33_Witness ==
  /\ hpc = "reply"
  /\ hreq.kind = "CreateWindow"
  /\ hres.tag = "Ok"
  /\ DOMAIN windows = WindowIds
  /\ DOMAIN lastSetTitle = WindowIds \ {hres.window_id}
  /\ \A x \in DOMAIN lastSetTitle : windows[x].title = "X"


C35_WorkerGoneIsFatal ==
  /\ [][workerGone
          => (/\ fwdN' = fwdN /\ evCh' = evCh
              /\ windows' = windows
              /\ execReplied' = execReplied)]_vars
  /\ [][(workerGone /\ hpc = "recv" /\ hpc' # hpc)
          => IF ChanCanRecv(reqCh)
             THEN ChanFirst(reqCh).req.kind = "NextEvent" /\ hpc' = "parked"
             ELSE hpc' = "panicked"]_vars
  /\ [][(workerGone /\ hpc = "forward" /\ hpc' # hpc)
          => hpc' = "panicked"]_vars
  /\ []((workerGone /\ hpc = "recv" /\ ~ChanCanRecv(reqCh))
          => ENABLED HRecvDisconnected)
  /\ []((workerGone /\ hpc = "forward") => ENABLED HForwardDisconnected)
  /\ [][(workerGone /\ hpc = "panicked") => hpc' = "panicked"]_vars

\* C35 witness: the callback returned while the thread was parked; the next
\* occurrence was handed to the callback and its send panicked
C35_Witness ==
  /\ workerGone
  /\ hpc = "panicked"
  /\ hev \in RealKinds
  /\ fwdN = 1
  /\ rcvdN = 1


\* C36: DeviceIds::get is a stable injective memoizing counter: a device id
\* that has an integer keeps it, distinct device ids have distinct integers,
\* a device id seen for the first time gets the next integer (the stored
\* values are exactly 1..next-1); and serialize_device_id, run on the same
\* call sequence, returns what DeviceIds::get returns and ends each call
\* with the same map and counter.
C36_DeviceIdsMemoizingCounter ==
  /\ [](\A a, b \in DOMAIN diMap : diMap[a] = diMap[b] => a = b)
  /\ []({diMap[k] : k \in DOMAIN diMap} = 1..(diNext - 1))
  /\ [][\A d \in DOMAIN diMap :
          d \in DOMAIN diMap' /\ diMap'[d] = diMap[d]]_vars
  /\ [][\A d \in DOMAIN diMap' \ DOMAIN diMap :
          diMap'[d] = Cardinality(DOMAIN diMap) + 1]_vars
  /\ [](\A t \in Threads : sdPc[t] = "ret" => sdU[t] = diRet[t])
  /\ []((sdLock = 0 /\ sdState.some)
          => (sdState.map = diMap /\ sdState.next = diNext))

\* C36 witness: three calls have returned, one of them for a device id seen
\* before, and two integers are assigned
C36_Witness ==
  /\ sdCalls = 3
  /\ \A t \in Threads : sdPc[t] = "idle"
  /\ Cardinality(DOMAIN diMap) = 2
  /\ diNext = 3
  /\ Cardinality(sdAssigned) = 2

\* C37: with two threads calling serialize_device_id, the integers returned
\* are as if the calls ran one after the other: no two device ids were given
\* the same integer, no device id two integers, and the integers given are
\* 1..n with none skipped once the calls have returned; only the holder of
\* the mutex is past the lock.
C37_ConcurrentAssignIsAtomic ==
  /\ \A p, q \in sdAssigned : (p[2] = q[2]) <=> (p[1] = q[1])
  /\ \A t \in Threads : sdPc[t] \notin {"idle", "lock"} => sdLock = t
  /\ (\A t \in Threads : sdPc[t] = "idle")
       => /\ {p[2] : p \in sdAssigned} = 1..Cardinality(sdAssigned)
          /\ sdState.some => sdState.next = Cardinality(sdAssigned) + 1

\* C37 witness: a call arrived while the other thread held the mutex, and
\* both have returned, with different device ids
C37_Witness ==
  /\ sdWaited
  /\ \A t \in Threads : sdPc[t] = "idle"
  /\ sdCalls = 2
  /\ Cardinality(sdAssigned) = 2


\* C38: check_suboptimal is Ok(false) for Good, Ok(true) for Suboptimal and
\* an error for Timeout, Outdated and Lost; a get_current_texture call that
\* returned Ok had status Good or Suboptimal, appended exactly its texture
\* to the table and returned its rid and the suboptimal flag; one that did
\* not return Ok left the table as it found it; a texture_present call that
\* was handed a status returns Ok exactly for Good and Suboptimal, and never
\* changes the table.
C38_SurfaceStatusHandling ==
  /\ \A status \in SurfaceStatus :
       check_suboptimal(status).kind =
         (IF status \in {"Good", "Suboptimal"} THEN "Ok" ELSE "Err")
  /\ ~check_suboptimal("Good").suboptimal
  /\ check_suboptimal("Suboptimal").suboptimal
  /\ suLast.op = "get_current_texture"
       => IF suLast.result.kind = "Ok"
          THEN /\ suLast.out.ok
               /\ suLast.out.status \in {"Good", "Suboptimal"}
               /\ suTable = Append(suLast.before,
                              [kind |-> "WebGpuTexture",
                               id |-> suLast.out.texture_id])
               /\ suLast.result.rid = Len(suTable)
               /\ suLast.result.suboptimal = (suLast.out.status = "Suboptimal")
          ELSE suTable = suLast.before
  /\ (/\ suLast.op = "get_current_texture"
      /\ LookupsOk(suLast.before, suLast.surface_rid, suLast.device_rid)
      /\ suLast.out.ok
      /\ suLast.out.status \in {"Good", "Suboptimal"}
      /\ suLast.out.texture_id # "None")
       => suLast.result.kind = "Ok"
  /\ suLast.op = "texture_present"
       => /\ suTable = suLast.before
          /\ (LookupsOk(suLast.before, suLast.surface_rid, suLast.device_rid)
                /\ suLast.out.ok)
               => (suLast.result.kind = "Ok"
                     <=> suLast.out.status \in {"Good", "Suboptimal"})
          /\ suLast.result.kind = "Ok" => suLast.out.ok

\* C38 witness: a texture was added under Suboptimal, and the next
\* get_current_texture, handed Outdated together with a texture id, returned
\* the error and added nothing
C38_Witness ==
  /\ suLast.op = "get_current_texture"
  /\ suLast.out.ok
  /\ suLast.out.status = "Outdated"
  /\ suLast.out.texture_id # "None"
  /\ suLast.result.kind = "Err"
  /\ Len(suTable) = 3
  /\ suTable[3].kind = "WebGpuTexture"


\* C39: the builder create_window hands to build(): with no options it is
\* WindowBuilder::new() with title "Denog"; with options, a present title
\* replaces "Denog" and an absent one leaves it, every other present field
\* sets its attribute and every absent field leaves the attribute unset,
\* fullscreen is set exactly when the field is present and true, so that
\* present-and-false builds what an absent fullscreen builds; the title and
\* inner size agree with the builder the bridge's CreateWindow arm uses.
C39_DefaultsThenOverrides ==
  cwPc = "built" =>
    LET o == cwOptions
        b == cwBuilder
        new == WindowBuilder_new
    IN IF ~o.present
       THEN b = [new EXCEPT !.title = <<"Denog">>]
       ELSE /\ b.title = (IF o.title = None THEN <<"Denog">> ELSE o.title)
            /\ (b.fullscreen # None) <=> (o.fullscreen = <<TRUE>>)
            /\ o.fullscreen = <<FALSE>>
                 => b = CreateWindowBuilder([o EXCEPT !.fullscreen = None])
            /\ (b.inner_size = None) <=> (o.inner_size = None)
            /\ o.inner_size # None
                 => /\ b.inner_size[1].width = o.inner_size[1][1]
                    /\ b.inner_size[1].height = o.inner_size[1][2]
            /\ (b.min_inner_size = None) <=> (o.min_inner_size = None)
            /\ (b.max_inner_size = None) <=> (o.max_inner_size = None)
            /\ (b.position = None) <=> (o.position = None)
            /\ b.resizable = o.resizable
            /\ (b.enabled_buttons = None) <=> (o.enable_buttons = None)
            /\ b.maximized = o.maximized
            /\ b.visible = o.visible
            /\ b.transparent = o.transparent
            /\ b.decorations = o.decorated
            /\ (b.window_level = None) <=> (o.level = None)
            /\ (b.theme = None) <=> (o.theme = None)
            /\ o.theme # None => b.theme[1][2] = o.theme[1]
            /\ (b.resize_increments = None) <=> (o.resize_increments = None)
            /\ b.content_protected = o.content_protected
            /\ b.active = o.active
            /\ LET bridge == BuilderFor([present |-> TRUE, title |-> o.title,
                                         inner_size |-> o.inner_size])
               IN /\ b.title = <<bridge.title>>
                  /\ (b.inner_size = None) <=> (bridge.inner_size = None)

\* C39 witness: options with title "X" and fullscreen false were given; the
\* builder has title "X" and no fullscreen
C39_Witness ==
  /\ cwPc = "built"
  /\ cwOptions.present
  /\ cwOptions.title = <<"X">>
  /\ cwOptions.fullscreen = <<FALSE>>
  /\ cwOptions.resizable = None
  /\ cwBuilder.title = <<"X">>
  /\ cwBuilder.fullscreen = None
  /\ cwBuilder.resizable = None


\* C40: when the serialization of an event has ended, the length given to
\* serialize_map is the number of entries serialized; a window event's
\* entries include "type" and "wid", a device event's include no "wid".
C40_DeclaredLenMatchesEntries ==
  sePc = "ended" =>
    LET keys == {seEntries[i] : i \in DOMAIN seEntries}
    IN /\ seDeclared = Len(seEntries)
       /\ seEvent \in WindowEventVariants
            => ("type" \in keys /\ "wid" \in keys)
       /\ seEvent \in DeviceEventVariants => "wid" \notin keys

====
